---------------------------- MODULE Spec2Model ----------------------------
(***************************************************************************)
(* A model of src/src/incremental_indexer.py (class IncrementalIndexer):   *)
(* the record table, the FAISS vector list, the document list, their three *)
(* files on disk, the thread pool of incremental_index, save_data's three  *)
(* writes, load_existing_data, cleanup_deleted_files and search; and of    *)
(* src/src/agentic_search_engine.py (AgenticSearchEngine over the indexer: *)
(* query expansion, intent analysis, the fan-out, the ranker, the sort).   *)
(*                                                                         *)
(* Slots are numbered from 0 as in the code (embedding_index = ntotal - 1);*)
(* the vector of slot s is index[s + 1], the document at list position i   *)
(* of the code is documents[i + 1].                                        *)
(***************************************************************************)
EXTENDS Integers, Sequences, FiniteSets, TLC

(***************************************************************************)
(* Bounds of the model.                                                    *)
(***************************************************************************)
NumPaths == 2
MaxContent == 2
MaxClock == 1
MaxVectors == 4
MaxFiles == 2
MaxWorkers == 2
MaxSaveFrequency == 2
MaxTopK == 3
MaxCrashes == 1
MaxCalls == 2
MaxSearches == 1
MaxAccess == 1
MaxHistory == 3
MaxExpansions == 5
NumDirs == 2
MaxItems == 2
\* the capacity of the search history, scaled down to the model
HistoryCapacity == 2

Paths == 1..NumPaths
Contents == 1..MaxContent
Queries == 1..MaxContent
Workers == 1..MaxWorkers

VARIABLES
    fs,            \* the file system: path -> [mtime, content, readable], for the paths that exist
    clock,         \* the file system's clock (source of st_mtime)
    file_records,  \* self.file_records: path -> FileRecord
    index,         \* self.index: the vectors of the FAISS index, in slot order
    documents,     \* self.documents
    records_file,  \* file_records.json
    index_file,    \* incremental_index.faiss
    documents_file,\* documents.pkl
    pc,            \* position of the main thread
    run,           \* locals of the incremental_index / cleanup call in progress
    worker,        \* position and locals of each pool thread in index_single_file
    completed,     \* results of finished futures, in completion order
    ret,           \* what the last finished operation returned
    retired,       \* history: slots of records of earlier calls, replaced or removed since
    ckpt,          \* history: paths of the records in the last completed save_data of the run
    streak,        \* history: runs on the same list with no file change since the first began
    crashes,       \* history: number of kills so far
    calls,         \* history: number of incremental_index and cleanup calls so far
    search_history,       \* AgenticSearchEngine.search_history
    file_access_patterns, \* AgenticSearchEngine.file_access_patterns: path -> count
    scanner        \* the FilesystemScanner: its flag, scan_system and its pool tasks

vars == <<fs, clock, file_records, index, documents, records_file, index_file,
          documents_file, pc, run, worker, completed, ret, retired, ckpt,
          streak, crashes, calls, search_history, file_access_patterns,
          scanner>>

\* the state of the AgenticSearchEngine built over the indexer
engine == <<search_history, file_access_patterns>>

(***************************************************************************)
(* Pure helpers.                                                           *)
(***************************************************************************)
Min(a, b) == IF a < b THEN a ELSE b

\* the elements of a list
Range(seq) == {seq[i] : i \in 1..Len(seq)}

\* st_size of a file holding content c
StSize(c) == (c + 1) \div 2

\* calculate_file_hash: the md5 digest of the (whole, small) file; a file
\* that is missing or cannot be opened for reading gives the string
\* "error_..." (digest 0 here)
calculate_file_hash(path, disk) ==
    IF path \in DOMAIN disk /\ disk[path].readable
    THEN 100 + disk[path].content ELSE 0

\* self.embedding_dim, line 48
embedding_dim == 384

\* create_embedding: the vector of a text, deterministic in the text
create_embedding(text) == 10 * text

\* the dimension of a vector: embedding_dim for the vectors create_embedding
\* gives; a vector of an index file written with another embedding model
\* (negative here) has another dimension
Dimension(v) == IF v >= 0 THEN embedding_dim ELSE 2 * embedding_dim

\* self.index.d: IndexFlatIP(self.embedding_dim) at line 51, or the dimension
\* of the index that faiss.read_index returned at line 80
IndexDimension(vectors) ==
    IF vectors = <<>> THEN embedding_dim ELSE Dimension(vectors[1])

\* inner product of two vectors of the model, in hundredths
InnerProduct(a, b) == IF a = b THEN 100 ELSE 100 - 30 * (IF a > b THEN (a - b) \div 10 ELSE (b - a) \div 10)

\* dict[key] = value
Put(d, key, value) == [k \in DOMAIN d \cup {key} |-> IF k = key THEN value ELSE d[k]]

\* {k: v for k in d if k not in gone}
Without(d, gone) == [k \in DOMAIN d \ gone |-> d[k]]


(***************************************************************************)
(* Change detection.                                                       *)
(***************************************************************************)
\* needs_reindexing with the mtime test written >= instead of >
needs_reindexing_mtime_ge(path, records, disk) ==
    IF path \notin DOMAIN records THEN TRUE
    ELSE IF path \notin DOMAIN disk THEN TRUE
    ELSE LET record == records[path]
             stat == disk[path]
         IN  IF stat.mtime >= record.modified_time THEN TRUE
             ELSE IF StSize(stat.content) /= record.size_bytes THEN TRUE
             ELSE IF calculate_file_hash(path, disk) /= record.content_hash THEN TRUE
             ELSE FALSE

\* needs_reindexing without its comparison of the content hash
needs_reindexing_no_hash(path, records, disk) ==
    IF path \notin DOMAIN records THEN TRUE
    ELSE IF path \notin DOMAIN disk THEN TRUE
    ELSE LET record == records[path]
             stat == disk[path]
         IN  IF stat.mtime > record.modified_time THEN TRUE
             ELSE IF StSize(stat.content) /= record.size_bytes THEN TRUE
             ELSE FALSE

\* needs_reindexing; a failing stat() raises and the handler returns True
needs_reindexing(path, records, disk) ==
    IF path \notin DOMAIN records THEN TRUE
    ELSE IF path \notin DOMAIN disk THEN TRUE
    ELSE LET record == records[path]
             stat == disk[path]
         IN  IF stat.mtime > record.modified_time THEN TRUE
             ELSE IF StSize(stat.content) /= record.size_bytes THEN TRUE
             ELSE IF calculate_file_hash(path, disk) /= record.content_hash THEN TRUE
             ELSE FALSE

\* the filter of lines 264-267 keeping one entry for a path named again
\* later in the list
RECURSIVE files_to_process_once(_, _, _)
files_to_process_once(list, records, disk) ==
    IF list = <<>> THEN <<>>
    ELSE LET rest == files_to_process_once(Tail(list), records, disk)
         IN  IF /\ needs_reindexing(Head(list), records, disk)
                /\ Head(list) \notin Range(rest)
             THEN <<Head(list)>> \o rest ELSE rest

\* files_to_process of incremental_index: files, filtered, in order
RECURSIVE files_to_process(_, _, _)
files_to_process(list, records, disk) ==
    IF list = <<>> THEN <<>>
    ELSE LET rest == files_to_process(Tail(list), records, disk)
         IN  IF needs_reindexing(Head(list), records, disk)
             THEN <<Head(list)>> \o rest ELSE rest

(***************************************************************************)
(* Persistence.                                                            *)
(***************************************************************************)
\* asdict + json.dump of the record table: a JSON object, one member per path
json_dump(records) == {<<path, records[path]>> : path \in DOMAIN records}

\* json.load + FileRecord(**record_data)
json_load(data) ==
    [path \in {m[1] : m \in data} |-> (CHOOSE m \in data : m[1] = path)[2]]

\* a file of the index directory: absent, opened for writing and not yet
\* complete ("partial": open(..., 'w') truncates in place), or complete
Absent(empty) == [state |-> "absent", data |-> empty]
Opened(data) == [state |-> "partial", data |-> data]
Written(f) == [state |-> "ok", data |-> f.data]

\* load_existing_data with the three loads chained by elif: only the first
\* file that exists is loaded
load_existing_data_elif(rf, xf, df) ==
    [file_records |-> IF rf.state = "ok" THEN json_load(rf.data) ELSE <<>>,
     index        |-> IF xf.state = "ok" /\ rf.state = "absent" THEN xf.data ELSE <<>>,
     documents    |-> IF df.state = "ok" /\ rf.state = "absent" /\ xf.state = "absent"
                      THEN df.data ELSE <<>>]

\* load_existing_data, started from the values __init__ assigns. The three
\* loads share one try block: the first unreadable file ends the loading and
\* what was loaded before it stays.
load_existing_data(rf, xf, df) ==
    LET failR == rf.state = "partial"
        failX == failR \/ xf.state = "partial"
    IN  [file_records |-> IF rf.state = "ok" THEN json_load(rf.data) ELSE <<>>,
         index        |-> IF xf.state = "ok" /\ ~failR THEN xf.data ELSE <<>>,
         documents    |-> IF df.state = "ok" /\ ~failX THEN df.data ELSE <<>>]

(***************************************************************************)
(* Search.                                                                 *)
(***************************************************************************)
\* the slot faiss ranks first among S: highest inner product, lower slot on ties
BestSlot(S, q, vectors) ==
    CHOOSE s \in S : \A t \in S :
        \/ InnerProduct(q, vectors[s + 1]) > InnerProduct(q, vectors[t + 1])
        \/ InnerProduct(q, vectors[s + 1]) = InnerProduct(q, vectors[t + 1]) /\ s <= t

\* self.index.search(query, n): the n best slots, best first
RECURSIVE index_search(_, _, _, _)
index_search(S, q, n, vectors) ==
    IF n = 0 \/ S = {} THEN <<>>
    ELSE LET b == BestSlot(S, q, vectors)
         IN  <<b>> \o index_search(S \ {b}, q, n - 1, vectors)

\* the hit search builds from slot idx: the document at list position idx
\* with the score of vector idx (slot is kept to name the vector it came from)
Hit(idx, q, vectors, docs) ==
    [slot |-> idx,
     file_path |-> docs[idx + 1].file_path,
     embedding_index |-> docs[idx + 1].embedding_index,
     modified |-> docs[idx + 1].modified,
     similarity_score |-> InnerProduct(q, vectors[idx + 1])]

RECURSIVE Hits(_, _, _, _)
Hits(indices, q, vectors, docs) ==
    IF indices = <<>> THEN <<>>
    ELSE LET rest == Hits(Tail(indices), q, vectors, docs)
         IN  IF Head(indices) < Len(docs)
             THEN <<Hit(Head(indices), q, vectors, docs)>> \o rest ELSE rest

\* IncrementalIndexer.search(query, top_k)
\* (self.index.search refuses a query vector whose dimension is not that of
\* the index; the handler of line 386 returns the empty list)
search(query, top_k, vectors, docs) ==
    IF docs = <<>> THEN <<>>
    ELSE IF IndexDimension(vectors) /= embedding_dim THEN <<>>
    ELSE Hits(index_search(0..(Len(vectors) - 1), create_embedding(query),
                           Min(top_k, Len(vectors)), vectors),
              create_embedding(query), vectors, docs)

\* get_index_statistics: total_files and index_size
get_index_statistics(records, vectors) ==
    [total_files |-> Cardinality(DOMAIN records), index_size |-> Len(vectors)]

(***************************************************************************)
(* Initial state: a fresh index directory, every path a file written at    *)
(* time 0 (the files differ in content as far as the contents allow), the  *)
(* indexer constructed (load_existing_data finds no file).                 *)
(***************************************************************************)
NoRun == [files |-> <<>>, queue |-> <<>>, n |-> 0, i |-> 0, processed |-> 0,
          errors |-> 0, max_workers |-> 0, save_frequency |-> 1,
          caller |-> "none", deleted_count |-> 0, base |-> 0, written |-> 0]

Free == [pc |-> "free", path |-> 0, content |-> 0, modified |-> 0, slot |-> 0,
         found_index |-> 0]

Returned(op, saved) ==
    [op |-> op, saved |-> saved, total_files |-> 0, processed |-> 0,
     skipped |-> 0, errors |-> 0, deleted_count |-> 0, hits |-> <<>>,
     args |-> <<>>]

\* FilesystemScanner.__init__ (line 106), and the locals of a scan_system
\* call: one scan_directory task per include directory
Dirs == 1..NumDirs
NoTask == [pc |-> "none", i |-> 0, files_found |-> <<>>]
NoScan == [pc |-> "idle", stop_scanning |-> FALSE,
           task |-> [d \in Dirs |-> NoTask], all_files |-> <<>>,
           requested |-> FALSE]

NoCheckpoint == [stage |-> "none", files |-> <<>>, paths |-> {}, loaded |-> {}]

Init ==
    /\ fs = [path \in Paths |-> [mtime |-> 0, content |-> ((path - 1) % MaxContent) + 1,
                                 readable |-> TRUE]]
    /\ clock = 0
    /\ file_records = <<>>
    /\ index = <<>>
    /\ documents = <<>>
    /\ records_file = Absent({})
    /\ index_file = Absent(<<>>)
    /\ documents_file = Absent(<<>>)
    /\ pc = "idle"
    /\ run = NoRun
    /\ worker = [w \in Workers |-> Free]
    /\ completed = <<>>
    /\ ret = Returned("init", FALSE)
    /\ retired = {}
    /\ ckpt = NoCheckpoint
    /\ streak = 0
    /\ crashes = 0
    /\ calls = 0
    /\ search_history = <<>>
    /\ file_access_patterns = <<>>
    /\ scanner = NoScan

\* run.written is history: the number of times this run stored a record
\* (line 231)

(***************************************************************************)
(* The file system changes under the indexer.                              *)
(***************************************************************************)
\* a recovery or an unchanged-list streak is over once a file changes
FilesChanged ==
    /\ streak' = 0
    /\ ckpt' = NoCheckpoint

\* a file is created or overwritten; its mtime is the time of the write
WriteFile(path, content) ==
    /\ pc /= "down"
    /\ clock < MaxClock
    /\ path \in DOMAIN fs => fs[path].content /= content
    /\ clock' = clock + 1
    /\ fs' = Put(fs, path, [mtime |-> clock + 1, content |-> content,
                            readable |-> TRUE])
    /\ FilesChanged
    /\ UNCHANGED <<file_records, index, documents, records_file, index_file,
                   documents_file, pc, run, worker, completed, ret, retired, crashes, calls>>
    /\ UNCHANGED <<engine, scanner>>

\* a file is removed
DeleteFile(path) ==
    /\ pc /= "down"
    /\ path \in DOMAIN fs
    /\ clock < MaxClock
    /\ clock' = clock + 1
    /\ fs' = Without(fs, {path})
    /\ FilesChanged
    /\ UNCHANGED <<file_records, index, documents, records_file, index_file,
                   documents_file, pc, run, worker, completed, ret, retired, crashes, calls>>
    /\ UNCHANGED <<engine, scanner>>

(***************************************************************************)
(* incremental_index: the main thread.                                     *)
(***************************************************************************)
FileLists == UNION {[1..n -> Paths] : n \in 1..MaxFiles}

\* lines 261-295: filter the list, return at once if nothing is to be done,
\* otherwise submit one task per file to the pool
IncrementalIndex(list, save_frequency, max_workers) ==
    /\ pc = "idle"
    /\ calls < MaxCalls
    /\ calls' = calls + 1
    /\ LET todo == files_to_process(list, file_records, fs)
           same == streak >= 1 /\ run.files = list
       IN  /\ Len(index) + Len(todo) <= MaxVectors
           /\ streak' = IF same THEN 2 ELSE 1
           /\ ckpt' = IF ckpt.stage = "restarted" /\ ckpt.files = list
                      THEN [ckpt EXCEPT !.stage = IF todo = <<>> THEN "recovered"
                                                 ELSE "rerun"]
                      ELSE NoCheckpoint
           /\ IF todo = <<>>
              THEN /\ pc' = "idle"
                   /\ run' = [NoRun EXCEPT !.files = list]
                   /\ ret' = [Returned("incremental_index", FALSE) EXCEPT
                                 !.total_files = Len(list), !.skipped = Len(list)]
              ELSE /\ pc' = "loop"
                   /\ run' = [NoRun EXCEPT !.files = list, !.queue = todo,
                                 !.n = Len(todo), !.max_workers = max_workers,
                                 !.save_frequency = save_frequency,
                                 !.base = Len(index)]
                   /\ ret' = Returned("running", FALSE)
    /\ UNCHANGED <<fs, clock, file_records, index, documents, records_file,
                   index_file, documents_file, worker, completed, retired, crashes>>
    /\ UNCHANGED <<engine, scanner>>

\* the loop of lines 298-319 counting the successes only: a task that
\* returns False is counted nowhere
Collect_successes_only ==
    /\ pc = "loop"
    /\ completed /= <<>>
    /\ completed' = Tail(completed)
    /\ LET i1 == run.i + 1
           counted == [run EXCEPT !.i = i1,
                          !.processed = IF Head(completed) THEN @ + 1 ELSE @]
       IN  IF i1 % run.save_frequency = 0
           THEN /\ pc' = "save_records"
                /\ run' = [counted EXCEPT !.caller = "periodic"]
           ELSE IF i1 = run.n
           THEN /\ pc' = "save_records"
                /\ run' = [counted EXCEPT !.caller = "final"]
           ELSE /\ pc' = "loop"
                /\ run' = counted
    /\ UNCHANGED <<fs, clock, file_records, index, documents, records_file,
                   index_file, documents_file, worker, ret, retired, ckpt,
                   streak, crashes, calls>>
    /\ UNCHANGED <<engine, scanner>>

\* lines 298-319: one iteration of the as_completed loop
Collect ==
    /\ pc = "loop"
    /\ completed /= <<>>
    /\ completed' = Tail(completed)
    /\ LET i1 == run.i + 1
           counted == [run EXCEPT !.i = i1,
                          !.processed = IF Head(completed) THEN @ + 1 ELSE @,
                          !.errors = IF Head(completed) THEN @ ELSE @ + 1]
       IN  IF i1 % run.save_frequency = 0
           THEN /\ pc' = "save_records"
                /\ run' = [counted EXCEPT !.caller = "periodic"]
           ELSE IF i1 = run.n
           THEN /\ pc' = "save_records"
                /\ run' = [counted EXCEPT !.caller = "final"]
           ELSE /\ pc' = "loop"
                /\ run' = counted
    /\ UNCHANGED <<fs, clock, file_records, index, documents, records_file,
                   index_file, documents_file, worker, ret, retired, ckpt,
                   streak, crashes, calls>>
    /\ UNCHANGED <<engine, scanner>>

(***************************************************************************)
(* index_single_file: one task on a pool thread. The threads share         *)
(* self.index, self.file_records and self.documents without a lock, so the *)
(* task is a sequence of steps that interleave with the other threads.     *)
(***************************************************************************)
Finish(w, success) ==
    /\ worker' = [worker EXCEPT ![w] = Free]
    /\ completed' = Append(completed, success)

\* lines 186-197: a free thread takes the next task, extracts the content and
\* embeds it; a file that cannot be read gives no content and the task fails
Extract(w) ==
    /\ w <= run.max_workers
    /\ worker[w].pc = "free"
    /\ \A v \in 1..(w - 1) : worker[v].pc /= "free"
    /\ run.queue /= <<>>
    /\ run' = [run EXCEPT !.queue = Tail(@)]
    /\ LET path == Head(run.queue)
       IN  IF path \in DOMAIN fs /\ fs[path].readable
           THEN /\ worker' = [worker EXCEPT ![w] =
                      [Free EXCEPT !.pc = "add", !.path = path,
                                   !.content = fs[path].content,
                                   !.modified = fs[path].mtime]]
                /\ UNCHANGED completed
           ELSE Finish(w, FALSE)
    /\ UNCHANGED <<fs, clock, file_records, index, documents, records_file,
                   index_file, documents_file, pc, ret, retired, ckpt, streak,
                   crashes, calls>>
    /\ UNCHANGED <<engine, scanner>>

\* lines 209-211: self.index.add; faiss refuses a vector whose dimension is
\* not that of the index, the handler of line 253 catches it and the task fails
IndexAdd(w) ==
    /\ worker[w].pc = "add"
    /\ IF IndexDimension(index) = embedding_dim
       THEN /\ index' = Append(index, create_embedding(worker[w].content))
            /\ worker' = [worker EXCEPT ![w].pc = "record"]
            /\ UNCHANGED completed
       ELSE /\ Finish(w, FALSE)
            /\ UNCHANGED index
    /\ UNCHANGED <<fs, clock, file_records, documents, records_file, index_file,
                   documents_file, pc, run, ret, retired, ckpt,
                   streak, crashes, calls>>
    /\ UNCHANGED <<engine, scanner>>

\* lines 218-229: the FileRecord built from the slot read at line 212 and the
\* stat and hash of the file as it is now
NewRecord(path, content, embedding_index, disk) ==
    [file_path |-> path,
     size_bytes |-> StSize(disk[path].content),
     modified_time |-> disk[path].mtime,
     content_hash |-> calculate_file_hash(path, disk),
     embedding_index |-> embedding_index,
     content_preview |-> content]

\* lines 212-231: read ntotal - 1, stat the file, store the record; stat()
\* of a file removed meanwhile raises and the task fails
StoreRecord(w) ==
    /\ worker[w].pc = "record"
    /\ LET path == worker[w].path
           embedding_index == Len(index) - 1
       IN  IF path \in DOMAIN fs
           THEN /\ file_records' = Put(file_records, path,
                      NewRecord(path, worker[w].content, embedding_index, fs))
                /\ retired' = IF /\ path \in DOMAIN file_records
                                 /\ file_records[path].embedding_index < run.base
                              THEN retired \cup {file_records[path].embedding_index}
                              ELSE retired
                /\ worker' = [worker EXCEPT ![w].pc = "scan",
                                            ![w].slot = embedding_index]
                /\ run' = [run EXCEPT !.written = @ + 1]
                /\ UNCHANGED completed
           ELSE /\ Finish(w, FALSE)
                /\ UNCHANGED <<file_records, retired, run>>
    /\ UNCHANGED <<fs, clock, index, documents, records_file, index_file,
                   documents_file, pc, ret, ckpt, streak, crashes, calls>>
    /\ UNCHANGED <<engine, scanner>>

\* lines 240-244: the list position of the first document of this path, 0 if none
FoundIndex(docs, path) ==
    IF \E i \in 1..Len(docs) : docs[i].file_path = path
    THEN CHOOSE i \in 1..Len(docs) :
            /\ docs[i].file_path = path
            /\ \A j \in 1..(i - 1) : docs[j].file_path /= path
    ELSE 0

ScanDocuments(w) ==
    /\ worker[w].pc = "scan"
    /\ worker' = [worker EXCEPT ![w].pc = "document",
                                ![w].found_index = FoundIndex(documents, worker[w].path)]
    /\ UNCHANGED <<fs, clock, file_records, index, documents, records_file,
                   index_file, documents_file, pc, run, completed, ret, retired,
                   ckpt, streak, crashes, calls>>
    /\ UNCHANGED <<engine, scanner>>

\* lines 234-236: doc_data, the extractor's content_data (its metadata holds
\* the file's mtime at extraction) with the slot
DocData(path, content, modified, embedding_index) ==
    [file_path |-> path, content |-> content, modified |-> modified,
     embedding_index |-> embedding_index]

\* lines 246-251: replace the document found, or append; the task succeeds
StoreDocument(w) ==
    /\ worker[w].pc = "document"
    /\ LET doc_data == DocData(worker[w].path, worker[w].content, worker[w].modified,
                               worker[w].slot)
       IN  documents' = IF worker[w].found_index /= 0
                        THEN [documents EXCEPT ![worker[w].found_index] = doc_data]
                        ELSE Append(documents, doc_data)
    /\ Finish(w, TRUE)
    /\ UNCHANGED <<fs, clock, file_records, index, records_file, index_file,
                   documents_file, pc, run, ret, retired, ckpt, streak, crashes, calls>>
    /\ UNCHANGED <<engine, scanner>>

(***************************************************************************)
(* save_data: three files written one after the other, each opened in      *)
(* place (truncated) and then filled.                                      *)
(***************************************************************************)
\* lines 97-101
OpenRecordsFile ==
    /\ pc = "save_records"
    /\ records_file' = Opened(json_dump(file_records))
    /\ pc' = "write_records"
    /\ UNCHANGED <<fs, clock, file_records, index, documents, index_file,
                   documents_file, run, worker, completed, ret, retired, ckpt,
                   streak, crashes, calls>>
    /\ UNCHANGED <<engine, scanner>>

\* line 102
WriteRecordsFile ==
    /\ pc = "write_records"
    /\ records_file' = Written(records_file)
    /\ pc' = "save_index"
    /\ UNCHANGED <<fs, clock, file_records, index, documents, index_file,
                   documents_file, run, worker, completed, ret, retired, ckpt,
                   streak, crashes, calls>>
    /\ UNCHANGED <<engine, scanner>>

\* line 105, the file opened
OpenIndexFile ==
    /\ pc = "save_index"
    /\ index_file' = Opened(index)
    /\ pc' = "write_index"
    /\ UNCHANGED <<fs, clock, file_records, index, documents, records_file,
                   documents_file, run, worker, completed, ret, retired, ckpt,
                   streak, crashes, calls>>
    /\ UNCHANGED <<engine, scanner>>

\* line 105, the file written
WriteIndexFile ==
    /\ pc = "write_index"
    /\ index_file' = Written(index_file)
    /\ pc' = "save_documents"
    /\ UNCHANGED <<fs, clock, file_records, index, documents, records_file,
                   documents_file, run, worker, completed, ret, retired, ckpt,
                   streak, crashes, calls>>
    /\ UNCHANGED <<engine, scanner>>

\* line 108
OpenDocumentsFile ==
    /\ pc = "save_documents"
    /\ documents_file' = Opened(documents)
    /\ pc' = "write_documents"
    /\ UNCHANGED <<fs, clock, file_records, index, documents, records_file,
                   index_file, run, worker, completed, ret, retired, ckpt,
                   streak, crashes, calls>>
    /\ UNCHANGED <<engine, scanner>>

\* line 109 and the return to the caller of save_data: the loop of
\* incremental_index (lines 317-319), its end (lines 322-344) or
\* cleanup_deleted_files (lines 434-437)
WriteDocumentsFile ==
    /\ pc = "write_documents"
    /\ documents_file' = Written(documents_file)
    /\ IF run.caller = "periodic"
       THEN /\ ckpt' = IF ckpt.stage \in {"none", "taken"}
                       THEN [NoCheckpoint EXCEPT !.stage = "taken", !.files = run.files,
                                !.paths = {m[1] : m \in records_file.data}]
                       ELSE ckpt
            /\ IF run.i = run.n
               THEN /\ pc' = "save_records"
                    /\ run' = [run EXCEPT !.caller = "final"]
               ELSE /\ pc' = "loop"
                    /\ run' = [run EXCEPT !.caller = "none"]
            /\ UNCHANGED ret
       ELSE IF run.caller = "final"
       THEN /\ pc' = "idle"
            /\ ckpt' = IF ckpt.stage = "rerun"
                       THEN [ckpt EXCEPT !.stage = "recovered"] ELSE NoCheckpoint
            /\ ret' = [Returned("incremental_index", TRUE) EXCEPT
                          !.total_files = Len(run.files),
                          !.processed = run.processed,
                          !.skipped = Len(run.files) - run.n,
                          !.errors = run.errors]
            /\ run' = [NoRun EXCEPT !.files = run.files]
       ELSE /\ pc' = "idle"
            /\ ret' = [Returned("cleanup_deleted_files", TRUE) EXCEPT
                          !.deleted_count = run.deleted_count]
            /\ run' = NoRun
            /\ UNCHANGED ckpt
    /\ UNCHANGED <<fs, clock, file_records, index, documents, records_file,
                   index_file, worker, completed, retired, streak, crashes, calls>>
    /\ UNCHANGED <<engine, scanner>>

\* lines 111-112: an exception raised inside the try block of save_data (the
\* disk is full, the directory is not writable) is caught and printed, and
\* save_data returns to its caller as after a completed save; the file being
\* written stays as the failed step left it
SaveDataFails ==
    /\ pc \in {"save_records", "write_records", "save_index", "write_index",
               "save_documents", "write_documents"}
    /\ IF run.caller = "periodic"
       THEN /\ IF run.i = run.n
               THEN /\ pc' = "save_records"
                    /\ run' = [run EXCEPT !.caller = "final"]
               ELSE /\ pc' = "loop"
                    /\ run' = [run EXCEPT !.caller = "none"]
            /\ UNCHANGED ret
       ELSE IF run.caller = "final"
       THEN /\ pc' = "idle"
            /\ ret' = [Returned("incremental_index", TRUE) EXCEPT
                          !.total_files = Len(run.files),
                          !.processed = run.processed,
                          !.skipped = Len(run.files) - run.n,
                          !.errors = run.errors]
            /\ run' = [NoRun EXCEPT !.files = run.files]
       ELSE /\ pc' = "idle"
            /\ ret' = [Returned("cleanup_deleted_files", TRUE) EXCEPT
                          !.deleted_count = run.deleted_count]
            /\ run' = NoRun
    /\ ckpt' = NoCheckpoint
    /\ UNCHANGED <<fs, clock, file_records, index, documents, records_file,
                   index_file, documents_file, worker, completed, retired,
                   streak, crashes, calls>>
    /\ UNCHANGED <<engine, scanner>>

(***************************************************************************)
(* cleanup_deleted_files and search, called while no run is in progress.   *)
(***************************************************************************)
\* line 425 without its filter: every document is kept
ExistingDocuments_all(docs, disk) == docs

\* [doc for doc in docs if Path(doc['file_path']).exists()]
RECURSIVE ExistingDocuments(_, _)
ExistingDocuments(docs, disk) ==
    IF docs = <<>> THEN <<>>
    ELSE LET rest == ExistingDocuments(Tail(docs), disk)
         IN  IF Head(docs).file_path \in DOMAIN disk
             THEN <<Head(docs)>> \o rest ELSE rest

\* lines 416-437
CleanupDeletedFiles ==
    /\ pc = "idle"
    /\ calls < MaxCalls
    /\ calls' = calls + 1
    /\ LET files_to_remove == DOMAIN file_records \ DOMAIN fs
           deleted_count == Cardinality(files_to_remove)
       IN  /\ file_records' = Without(file_records, files_to_remove)
           /\ retired' = retired \cup
                  {file_records[path].embedding_index : path \in files_to_remove}
           /\ documents' = ExistingDocuments(documents, fs)
           /\ IF deleted_count > 0
              THEN /\ pc' = "save_records"
                   /\ run' = [NoRun EXCEPT !.caller = "cleanup",
                                           !.deleted_count = deleted_count]
                   /\ ret' = Returned("running", FALSE)
              ELSE /\ pc' = "idle"
                   /\ run' = NoRun
                   /\ ret' = Returned("cleanup_deleted_files", FALSE)
    /\ ckpt' = NoCheckpoint
    /\ UNCHANGED <<fs, clock, index, records_file, index_file, documents_file,
                   worker, completed, streak, crashes>>
    /\ UNCHANGED <<engine, scanner>>

\* lines 346-388
Search(query, top_k) ==
    /\ pc = "idle"
    /\ ret' = [Returned("search", FALSE) EXCEPT
                  !.hits = search(query, top_k, index, documents)]
    /\ UNCHANGED <<fs, clock, file_records, index, documents, records_file,
                   index_file, documents_file, pc, run, worker, completed,
                   retired, ckpt, streak, crashes, calls>>
    /\ UNCHANGED <<engine, scanner>>

(***************************************************************************)
(* src/src/agentic_search_engine.py. A query is its sequence of lower-case *)
(* words; a component score of 1.0 is Unit, so that the quotients of the   *)
(* filename score are exact; a similarity score is in hundredths, as       *)
(* InnerProduct gives it.                                                  *)
(***************************************************************************)
Unit == 600

\* the queries tried
QueryStrings ==
    {<<>>, <<"report">>, <<"csv">>, <<"revenue">>, <<"financial", "report">>,
     <<"error", "report">>, <<"recent", "data">>}

\* proper substrings among the words of the queries and of the file names
ProperSubstrings == {<<"report", "reports">>, <<"data", "metadata">>}

\* needle in word (Python's substring test on two single words)
InWord(needle, word) == needle = word \/ <<needle, word>> \in ProperSubstrings

\* needle in text, for a single word and a text given by its words
InText(needle, words) == \E i \in 1..Len(words) : InWord(needle, words[i])

\* the text the embedding model is given, for a query: the model is a fixed
\* function of the text, here through the topics of its words
WordTopic(word) ==
    CASE word \in {"report", "reports", "financial", "bug", "analysis"} -> 1
      [] word \in {"profit", "issue", "data"} -> 2
      [] word = "statistics" -> 3
      [] word = "error" -> 4
      [] word = "csv" -> 6
      [] OTHER -> 0

RECURSIVE Text(_)
Text(words) == IF words = <<>> THEN 0 ELSE WordTopic(Head(words)) + Text(Tail(words))

\* Path(file_path).name as its word tokens, and the category the extractor
\* gives the file's extension
FilenameWords(path) ==
    CASE path = 1 -> {"report", "txt"}
      [] path = 2 -> {"reports", "csv"}
      [] OTHER -> {"notes", "py"}

Category(path) ==
    CASE path = 1 -> "text"
      [] path = 2 -> "data"
      [] OTHER -> "code"

\* QueryExpander.__init__: domain_expansions in dict order, each with the
\* first three of its terms (the only ones expand_query looks at)
domain_expansions ==
    <<[domain |-> "financial", terms |-> <<"revenue", "profit", "earnings">>],
      [domain |-> "customer", terms |-> <<"client", "user", "consumer">>],
      [domain |-> "technical", terms |-> <<"development", "code", "programming">>],
      [domain |-> "business", terms |-> <<"strategy", "planning", "management">>],
      [domain |-> "marketing", terms |-> <<"campaign", "promotion", "advertising">>],
      [domain |-> "project", terms |-> <<"task", "milestone", "deadline">>],
      [domain |-> "data", terms |-> <<"analysis", "statistics", "metrics">>],
      [domain |-> "meeting", terms |-> <<"discussion", "agenda", "notes">>]>>

\* QueryExpander.__init__: synonyms, each key with its first two synonyms
synonyms ==
    [word \in {"error", "improve", "urgent", "update", "plan"} |->
        CASE word = "error" -> <<"bug", "issue">>
          [] word = "improve" -> <<"enhance", "optimize">>
          [] word = "urgent" -> <<"critical", "important">>
          [] word = "update" -> <<"change", "modify">>
          [] OTHER -> <<"strategy", "roadmap">>]

\* query.replace(word, synonym)
Replace(query, word, synonym) ==
    [i \in 1..Len(query) |-> IF query[i] = word THEN synonym ELSE query[i]]

\* lines 72-77: the inner loop over terms[:2]; its break ends this loop only
RECURSIVE AddTerms(_, _, _, _)
AddTerms(expansions, terms, query, max_expansions) ==
    IF terms = <<>> THEN expansions
    ELSE IF ~InText(Head(terms), query)
    THEN LET added == Append(expansions, Append(query, Head(terms)))
         IN  IF Len(added) >= max_expansions THEN added
             ELSE AddTerms(added, Tail(terms), query, max_expansions)
    ELSE AddTerms(expansions, Tail(terms), query, max_expansions)

\* lines 70-77: the loop over the domains
RECURSIVE AddDomains(_, _, _, _)
AddDomains(expansions, domains, query, max_expansions) ==
    IF domains = <<>> THEN expansions
    ELSE LET d == Head(domains)
             triggered == \/ InText(d.domain, query)
                          \/ \E i \in 1..3 : InText(d.terms[i], query)
             next == IF triggered
                     THEN AddTerms(expansions, SubSeq(d.terms, 1, 2), query,
                                   max_expansions)
                     ELSE expansions
         IN  AddDomains(next, Tail(domains), query, max_expansions)

\* lines 82-86: the inner loop over synonyms[word][:2]
RECURSIVE AddSynonymsOf(_, _, _, _, _)
AddSynonymsOf(expansions, word, syns, query, max_expansions) ==
    IF syns = <<>> THEN expansions
    ELSE LET added == Append(expansions, Replace(query, word, Head(syns)))
         IN  IF Len(added) >= max_expansions THEN added
             ELSE AddSynonymsOf(added, word, Tail(syns), query, max_expansions)

\* lines 80-86: the loop over the words of the query
RECURSIVE AddSynonyms(_, _, _, _)
AddSynonyms(expansions, words, query, max_expansions) ==
    IF words = <<>> THEN expansions
    ELSE LET next == IF Head(words) \in DOMAIN synonyms
                     THEN AddSynonymsOf(expansions, Head(words),
                                        synonyms[Head(words)], query, max_expansions)
                     ELSE expansions
         IN  AddSynonyms(next, Tail(words), query, max_expansions)

\* lines 89-92
AddPhrases(expansions, words) ==
    IF Len(words) > 1
    THEN expansions \o <<SubSeq(words, 1, Len(words) - 1), Tail(words)>>
    ELSE expansions

\* expand_query returning its whole list, without the slice of line 94
expand_query_unsliced(query, max_expansions) ==
    AddPhrases(
        AddSynonyms(
            AddDomains(<<query>>, domain_expansions, query, max_expansions),
            query, query, max_expansions),
        query)

\* QueryExpander.expand_query
expand_query(query, max_expansions) ==
    LET all == AddPhrases(
                   AddSynonyms(
                       AddDomains(<<query>>, domain_expansions, query, max_expansions),
                       query, query, max_expansions),
                   query)
    IN  SubSeq(all, 1, Min(max_expansions, Len(all)))

\* re.search of a pattern of whole words: one word, or two adjacent words
HasWord(query, words) == \E i \in 1..Len(query) : query[i] \in words

HasPhrase(query, first, second) ==
    \E i \in 1..(Len(query) - 1) : query[i] = first /\ query[i + 1] = second

\* IntentAnalyzer.analyze_intent: the fields the ranker reads
analyze_intent(query) ==
    LET find_recent ==
            \/ HasWord(query, {"recent", "latest", "new", "today", "yesterday"})
            \/ HasPhrase(query, "this", "week")
            \/ HasWord(query, {"updated", "modified", "changed"})
        time_refs ==
            \/ HasWord(query, {"today", "yesterday"})
            \/ HasPhrase(query, "this", "week")
            \/ HasPhrase(query, "last", "week")
            \/ HasPhrase(query, "this", "month")
        hints ==
            (IF HasWord(query, {"document", "doc", "pdf"}) THEN <<"document">> ELSE <<>>)
            \o (IF HasWord(query, {"spreadsheet", "excel", "csv", "data"})
                THEN <<"data">> ELSE <<>>)
            \o (IF HasWord(query, {"code", "script", "program"}) THEN <<"code">> ELSE <<>>)
    IN  [needs_recent_files |-> time_refs \/ find_recent,
         file_type_hints |-> hints]

\* SmartRanker.__init__: ranking_weights, in hundredths
ranking_weights ==
    [semantic_similarity |-> 40, recency |-> 20, file_type_match |-> 15,
     filename_match |-> 15, access_frequency |-> 10]

\* metadata without 'modified': get_file_metadata returned {'error': ...}
\* (document_extractor.py lines 64-75: stat() failed, or the time stamp is
\* out of the range of datetime.fromtimestamp) and extract_content went on
\* to read the file
NoDate == -1

\* SmartRanker._calculate_recency_score, now being the clock, in days; a
\* result carries the file's mtime under metadata.modified; without it the
\* score is 0.0 (lines 219-220)
calculate_recency_score(result, intent_analysis, now) ==
    IF ~intent_analysis.needs_recent_files THEN Unit \div 2
    ELSE IF result.modified = NoDate THEN 0
    ELSE LET days_old == now - result.modified
         IN  IF days_old = 0 THEN Unit
             ELSE IF days_old = 1 THEN (8 * Unit) \div 10
             ELSE IF days_old <= 7 THEN (6 * Unit) \div 10
             ELSE IF days_old <= 30 THEN (4 * Unit) \div 10
             ELSE (2 * Unit) \div 10

\* SmartRanker._calculate_file_type_score
calculate_file_type_score(result, intent_analysis) ==
    LET file_hints == intent_analysis.file_type_hints
        result_category == Category(result.file_path)
    IN  IF file_hints = <<>> THEN Unit \div 2
        ELSE IF \E i \in 1..Len(file_hints) :
                   \/ file_hints[i] = "document" /\ result_category \in {"document", "text"}
                   \/ file_hints[i] = "data" /\ result_category = "data"
                   \/ file_hints[i] = "code" /\ result_category = "code"
        THEN Unit
        ELSE (3 * Unit) \div 10

\* SmartRanker._calculate_filename_score
calculate_filename_score(result, query) ==
    LET query_words == Range(query)
        filename_words == FilenameWords(result.file_path)
        matches == query_words \cap filename_words
        partial == Cardinality({word \in query_words :
                                   \E f \in filename_words : InWord(word, f)})
    IN  IF query_words = {} THEN 0
        ELSE IF matches /= {}
        THEN (Cardinality(matches) * Unit) \div Cardinality(query_words)
        ELSE Min(Unit, (partial * Unit) \div (2 * Cardinality(query_words)))

\* SmartRanker._calculate_access_score
calculate_access_score(result, patterns) ==
    IF DOMAIN patterns = {} THEN Unit \div 2
    ELSE LET access_count == IF result.file_path \in DOMAIN patterns
                             THEN patterns[result.file_path] ELSE 0
         IN  IF access_count = 0 THEN (3 * Unit) \div 10
             ELSE IF access_count <= 2 THEN (6 * Unit) \div 10
             ELSE IF access_count <= 5 THEN (8 * Unit) \div 10
             ELSE Unit

\* lines 186-201: the five scores of a result
Scores(result, query, intent_analysis, patterns, now) ==
    [semantic_similarity |-> (result.similarity_score * Unit) \div 100,
     recency |-> calculate_recency_score(result, intent_analysis, now),
     file_type_match |-> calculate_file_type_score(result, intent_analysis),
     filename_match |-> calculate_filename_score(result, query),
     access_frequency |-> calculate_access_score(result, patterns)]

\* lines 204-207: total_score, in hundredths of 1 / Unit
WeightedSum(scores) ==
    scores.semantic_similarity * ranking_weights.semantic_similarity
    + scores.recency * ranking_weights.recency
    + scores.file_type_match * ranking_weights.file_type_match
    + scores.filename_match * ranking_weights.filename_match
    + scores.access_frequency * ranking_weights.access_frequency

\* calculate_relevance_score without the clamp of line 209
calculate_relevance_score_unclamped(result, query, intent_analysis, patterns, now) ==
    WeightedSum(Scores(result, query, intent_analysis, patterns, now))

\* SmartRanker.calculate_relevance_score
calculate_relevance_score(result, query, intent_analysis, patterns, now) ==
    LET total_score == WeightedSum(Scores(result, query, intent_analysis, patterns, now))
    IN  Min(100 * Unit, IF total_score < 0 THEN 0 ELSE total_score)

\* the position of path in all_results (a dict, kept in insertion order), 0 if none
PositionOf(all_results, path) ==
    IF \E i \in 1..Len(all_results) : all_results[i].file_path = path
    THEN CHOOSE i \in 1..Len(all_results) : all_results[i].file_path = path
    ELSE 0

\* lines 422-428 with the test on the score left out: the last hit of a path
\* replaces the one kept
RECURSIVE KeepLast(_, _)
KeepLast(all_results, raw_results) ==
    IF raw_results = <<>> THEN all_results
    ELSE LET result == Head(raw_results)
             at == PositionOf(all_results, result.file_path)
         IN  KeepLast(IF at = 0 THEN Append(all_results, result)
                      ELSE [all_results EXCEPT ![at] = result],
                      Tail(raw_results))

\* lines 422-428: keep the best hit of each path
RECURSIVE KeepBest(_, _)
KeepBest(all_results, raw_results) ==
    IF raw_results = <<>> THEN all_results
    ELSE LET result == Head(raw_results)
             at == PositionOf(all_results, result.file_path)
         IN  KeepBest(IF at = 0 THEN Append(all_results, result)
                      ELSE IF result.similarity_score > all_results[at].similarity_score
                      THEN [all_results EXCEPT ![at] = result]
                      ELSE all_results,
                      Tail(raw_results))

\* line 420 asking the indexer for top_k hits
raw_results_top_k(expanded_query, top_k, vectors, docs) ==
    search(Text(expanded_query), top_k, vectors, docs)

\* line 420: self.indexer.search(expanded_query, top_k * 2)
raw_results(expanded_query, top_k, vectors, docs) ==
    search(Text(expanded_query), top_k * 2, vectors, docs)

\* lines 417-428: the fan-out over the expanded queries
RECURSIVE FanOut(_, _, _, _, _)
FanOut(all_results, expanded_queries, top_k, vectors, docs) ==
    IF expanded_queries = <<>> THEN all_results
    ELSE FanOut(KeepBest(all_results,
                         raw_results(Head(expanded_queries), top_k, vectors, docs)),
                Tail(expanded_queries), top_k, vectors, docs)

\* lines 455-466: the SearchResult of a kept hit
SearchResult(result, query, intent_analysis, patterns, now) ==
    [file_path |-> result.file_path,
     similarity_score |-> result.similarity_score,
     category |-> Category(result.file_path),
     last_modified |-> result.modified,
     confidence |-> calculate_relevance_score(result, query, intent_analysis,
                                              patterns, now)]

\* line 471: list.sort(key = confidence, reverse = True); the sort is stable
RECURSIVE InsertByConfidence(_, _)
InsertByConfidence(sorted, x) ==
    IF sorted = <<>> THEN <<x>>
    ELSE IF Head(sorted).confidence >= x.confidence
    THEN <<Head(sorted)>> \o InsertByConfidence(Tail(sorted), x)
    ELSE <<x>> \o sorted

RECURSIVE SortByConfidence(_)
SortByConfidence(results) ==
    IF results = <<>> THEN <<>>
    ELSE InsertByConfidence(SortByConfidence(SubSeq(results, 1, Len(results) - 1)),
                            results[Len(results)])

\* lines 431-471: enhanced_results, sorted
enhanced_results(query, top_k, vectors, docs, patterns, now) ==
    LET intent_analysis == analyze_intent(query)
        all_results == FanOut(<<>>, expand_query(query, 5), top_k, vectors, docs)
    IN  SortByConfidence(
            [i \in 1..Len(all_results) |->
                SearchResult(all_results[i], query, intent_analysis, patterns, now)])

\* AgenticSearchEngine.search: final_results
agentic_search(query, top_k, vectors, docs, patterns, now) ==
    LET sorted == enhanced_results(query, top_k, vectors, docs, patterns, now)
    IN  SubSeq(sorted, 1, Min(top_k, Len(sorted)))

\* AgenticSearchEngine.search, called by the front end between two runs
AgenticSearchCall(query, top_k) ==
    /\ pc = "idle"
    /\ LET sorted == enhanced_results(query, top_k, index, documents,
                                      file_access_patterns, clock)
       IN  /\ search_history' = Append(search_history,
                  [query |-> query, results_count |-> Len(sorted)])
           /\ ret' = [Returned("agentic_search", FALSE) EXCEPT
                         !.hits = agentic_search(query, top_k, index, documents,
                                                 file_access_patterns, clock),
                         !.args = <<query, top_k>>]
    /\ UNCHANGED <<fs, clock, file_records, index, documents, records_file,
                   index_file, documents_file, pc, run, worker, completed,
                   retired, ckpt, streak, crashes, calls, file_access_patterns,
                   scanner>>

\* a search of a session of at most MaxSearches searches
AgenticSearch(query, top_k) ==
    /\ Len(search_history) < MaxSearches
    /\ AgenticSearchCall(query, top_k)

\* a search of a session of at most MaxHistory searches
SessionSearch(query, top_k) ==
    /\ Len(search_history) < MaxHistory
    /\ AgenticSearchCall(query, top_k)

\* lines 474-479: the entry a search appends to the history
HistoryEntry(query, top_k) ==
    [query |-> query,
     results_count |-> Len(enhanced_results(query, top_k, index, documents,
                                            file_access_patterns, clock))]

\* the first n entries of a list (Python's s[:n])
Slice(seq, n) == SubSeq(seq, 1, Min(n, Len(seq)))

\* suggest_files, lines 488-516: a search for "recent documents" if some
\* file was accessed, then a search for the hint if one is given; an empty
\* hint is no hint
SuggestFiles(context_hint) ==
    /\ pc = "idle"
    /\ LET recent_files == DOMAIN file_access_patterns
           recent_query == <<"recent", "documents">>
           recent_results ==
               IF recent_files /= {}
               THEN agentic_search(recent_query, 3, index, documents,
                                   file_access_patterns, clock)
               ELSE <<>>
           after_recent ==
               IF recent_files /= {}
               THEN Append(search_history, HistoryEntry(recent_query, 3))
               ELSE search_history
           context_results ==
               IF context_hint /= <<>>
               THEN agentic_search(context_hint, 3, index, documents,
                                   file_access_patterns, clock)
               ELSE <<>>
           after_hint ==
               IF context_hint /= <<>>
               THEN Append(after_recent, HistoryEntry(context_hint, 3))
               ELSE after_recent
           suggestions == Slice(recent_results, 2) \o Slice(context_results, 2)
       IN  /\ Len(after_hint) <= MaxHistory
           /\ search_history' = after_hint
           /\ ret' = [Returned("suggest_files", FALSE) EXCEPT
                         !.hits = Slice(suggestions, 5),
                         !.args = <<context_hint>>]
    /\ UNCHANGED <<fs, clock, file_records, index, documents, records_file,
                   index_file, documents_file, pc, run, worker, completed,
                   retired, ckpt, streak, crashes, calls, file_access_patterns,
                   scanner>>

\* update_file_access replacing the table by the entry of the given path
UpdateFileAccess_alone(path) ==
    /\ pc = "idle"
    /\ LET count == IF path \in DOMAIN file_access_patterns
                    THEN file_access_patterns[path] ELSE 0
       IN  /\ count < MaxAccess
           /\ file_access_patterns' = Put(<<>>, path, count + 1)
    /\ UNCHANGED <<fs, clock, file_records, index, documents, records_file,
                   index_file, documents_file, pc, run, worker, completed, ret,
                   retired, ckpt, streak, crashes, calls, search_history,
                   scanner>>

\* AgenticSearchEngine.update_file_access
UpdateFileAccess(path) ==
    /\ pc = "idle"
    /\ LET count == IF path \in DOMAIN file_access_patterns
                    THEN file_access_patterns[path] ELSE 0
       IN  /\ count < MaxAccess
           /\ file_access_patterns' = Put(file_access_patterns, path, count + 1)
    /\ UNCHANGED <<fs, clock, file_records, index, documents, records_file,
                   index_file, documents_file, pc, run, worker, completed, ret,
                   retired, ckpt, streak, crashes, calls, search_history,
                   scanner>>

(***************************************************************************)
(* FilesystemScanner: scan_system with the default configuration (parallel *)
(* scanning, one scan_directory task per include directory on a pool       *)
(* thread), and stop_scan called from another thread. scanner.requested is *)
(* history: stop_scan was called while the scan in progress was running.   *)
(***************************************************************************)
NotScanning == <<fs, clock, file_records, index, documents, records_file,
                 index_file, documents_file, pc, run, worker, completed,
                 retired, ckpt, streak, crashes, calls, engine>>

\* lines 214-218: scan_system is entered
ScanSystem ==
    /\ scanner.pc = "idle"
    /\ scanner' = [scanner EXCEPT !.pc = "reset", !.all_files = <<>>,
                                  !.task = [d \in Dirs |-> NoTask],
                                  !.requested = FALSE]
    /\ UNCHANGED <<NotScanning, ret>>

\* lines 219-235: the flag is cleared, the directories are submitted to the pool
ResetStop ==
    /\ scanner.pc = "reset"
    /\ scanner' = [scanner EXCEPT
                      !.pc = "collect",
                      !.stop_scanning = FALSE,
                      !.task = [d \in Dirs |-> [NoTask EXCEPT !.pc = "scan"]]]
    /\ UNCHANGED <<NotScanning, ret>>

\* lines 185-204: one turn of the loop of scan_directory over the items of
\* the directory: the flag is polled, then the item is taken
ScanDirectory(d) ==
    /\ scanner.pc = "collect"
    /\ scanner.task[d].pc = "scan"
    /\ scanner' =
          IF scanner.task[d].i = MaxItems \/ scanner.stop_scanning
          THEN [scanner EXCEPT !.task[d].pc = "done"]
          ELSE [scanner EXCEPT
                   !.task[d].i = @ + 1,
                   !.task[d].files_found = Append(@, <<d, scanner.task[d].i + 1>>)]
    /\ UNCHANGED <<NotScanning, ret>>

\* lines 237-241: as_completed hands over a finished task
CollectFiles(d) ==
    /\ scanner.pc = "collect"
    /\ scanner.task[d].pc = "done"
    /\ scanner' = [scanner EXCEPT
                      !.task[d].pc = "collected",
                      !.all_files = @ \o scanner.task[d].files_found]
    /\ UNCHANGED <<NotScanning, ret>>

\* lines 261-267: scan_system returns all_files
FinishScan ==
    /\ scanner.pc = "collect"
    /\ \A d \in Dirs : scanner.task[d].pc = "collected"
    /\ scanner' = [scanner EXCEPT !.pc = "idle", !.requested = FALSE]
    /\ ret' = [Returned("scan_system", FALSE) EXCEPT !.hits = scanner.all_files]
    /\ UNCHANGED NotScanning

\* stop_scan, lines 282-285
StopScan ==
    /\ scanner' = [scanner EXCEPT
                      !.stop_scanning = TRUE,
                      !.requested = @ \/ scanner.pc /= "idle"]
    /\ UNCHANGED <<NotScanning, ret>>

(***************************************************************************)
(* The process is killed, and the indexer is constructed again over the    *)
(* same index directory.                                                   *)
(***************************************************************************)
Crash ==
    /\ pc \notin {"idle", "down"}
    /\ crashes < MaxCrashes
    /\ crashes' = crashes + 1
    /\ pc' = "down"
    /\ file_records' = <<>>
    /\ index' = <<>>
    /\ documents' = <<>>
    /\ run' = NoRun
    /\ worker' = [w \in Workers |-> Free]
    /\ completed' = <<>>
    /\ ret' = Returned("killed", FALSE)
    /\ retired' = {}
    /\ streak' = 0
    /\ ckpt' = IF ckpt.stage = "taken" THEN [ckpt EXCEPT !.stage = "crashed"]
               ELSE NoCheckpoint
    /\ search_history' = <<>>
    /\ file_access_patterns' = <<>>
    /\ UNCHANGED <<fs, clock, records_file, index_file, documents_file, calls,
                   scanner>>

\* __init__, lines 42-59: a new indexer over the index directory, after a
\* kill or after the front end was closed
Restart ==
    /\ pc \in {"idle", "down"}
    /\ pc' = "idle"
    /\ LET loaded == load_existing_data(records_file, index_file, documents_file)
       IN  /\ file_records' = loaded.file_records
           /\ index' = loaded.index
           /\ documents' = loaded.documents
           /\ ckpt' = IF ckpt.stage = "crashed"
                      THEN [ckpt EXCEPT !.stage = "restarted",
                                        !.loaded = DOMAIN loaded.file_records]
                      ELSE ckpt
    /\ ret' = Returned("restart", ret.saved)
    /\ run' = [NoRun EXCEPT !.files = run.files]
    /\ retired' = {}
    /\ UNCHANGED <<fs, clock, records_file, index_file, documents_file,
                   worker, completed, streak, crashes, calls>>
    /\ UNCHANGED <<engine, scanner>>

\* the file system changes
Environment ==
    \/ \E path \in Paths, content \in Contents : WriteFile(path, content)
    \/ \E path \in Paths : DeleteFile(path)

\* the steps of a call in progress: its pool threads and its checkpoints
Running ==
    \/ Collect
    \/ \E w \in Workers : Extract(w)
    \/ \E w \in Workers : IndexAdd(w)
    \/ \E w \in Workers : StoreRecord(w)
    \/ \E w \in Workers : ScanDocuments(w)
    \/ \E w \in Workers : StoreDocument(w)
    \/ OpenRecordsFile
    \/ WriteRecordsFile
    \/ OpenIndexFile
    \/ WriteIndexFile
    \/ OpenDocumentsFile
    \/ WriteDocumentsFile

\* an incremental_index call with the pool at its full size
Indexing ==
    \/ \E list \in FileLists, save_frequency \in 1..MaxSaveFrequency :
            IncrementalIndex(list, save_frequency, MaxWorkers)
    \/ Running

Next ==
    \/ Environment
    \/ Indexing
    \/ CleanupDeletedFiles
    \/ \E query \in Queries, top_k \in 1..MaxTopK : Search(query, top_k)
    \/ Restart

\* the indexer used by its front end while the files change
Spec == Init /\ [][Next]_vars

NextCrash ==
    \/ Indexing
    \/ Crash
    \/ Restart

\* the indexer killed during a run and started again
SpecCrash == Init /\ [][NextCrash]_vars

NextAgentic ==
    \/ Environment
    \/ \E list \in FileLists : IncrementalIndex(list, MaxSaveFrequency, 1)
    \/ Running
    \/ CleanupDeletedFiles
    \/ \E path \in Paths : UpdateFileAccess(path)
    \/ \E query \in QueryStrings, top_k \in 1..MaxTopK : AgenticSearch(query, top_k)

\* the search engine over an indexer that indexes with a pool of one thread
SpecAgentic == Init /\ [][NextAgentic]_vars

(***************************************************************************)
(* Change detection on its own: needs_reindexing applied to one path, for  *)
(* every state of the file and of its record. A record's times, size and   *)
(* hash are those read when the file was indexed (lines 215-216); the file *)
(* may since have been rewritten, with a time stamp set by its writer,     *)
(* removed, or made unreadable. A record holds the "error_..." string as   *)
(* its hash when the file could not be opened at line 216 after the stat   *)
(* of line 215 succeeded.                                                  *)
(***************************************************************************)
ChangeContents == 1..(MaxContent + 1)

DiskEntries == [mtime : 0..MaxClock, content : ChangeContents, readable : BOOLEAN]

RecordsOf(path) ==
    {[file_path |-> path, size_bytes |-> size_bytes, modified_time |-> modified_time,
      content_hash |-> content_hash, embedding_index |-> 0, content_preview |-> 1] :
        size_bytes \in {StSize(c) : c \in ChangeContents},
        modified_time \in 0..MaxClock,
        content_hash \in {0} \cup {100 + c : c \in ChangeContents}}

\* an idle indexer holding these records, vectors and documents, saved
Indexed(records, vectors, docs) ==
    /\ file_records = records
    /\ index = vectors
    /\ documents = docs
    /\ records_file = IF vectors = <<>> THEN Absent({})
                      ELSE [state |-> "ok", data |-> json_dump(records)]
    /\ index_file = IF vectors = <<>> THEN Absent(<<>>)
                    ELSE [state |-> "ok", data |-> vectors]
    /\ documents_file = IF vectors = <<>> THEN Absent(<<>>)
                        ELSE [state |-> "ok", data |-> docs]
    /\ pc = "idle"
    /\ run = NoRun
    /\ worker = [w \in Workers |-> Free]
    /\ completed = <<>>
    /\ ret = Returned("init", FALSE)
    /\ retired = {}
    /\ ckpt = NoCheckpoint
    /\ streak = 0
    /\ crashes = 0
    /\ calls = 0
    /\ search_history = <<>>
    /\ scanner = NoScan

InitChange ==
    /\ clock = MaxClock
    /\ file_access_patterns = <<>>
    /\ LET others == [path \in Paths \ {1} |->
                        [mtime |-> 0, content |-> ((path - 1) % MaxContent) + 1,
                         readable |-> TRUE]]
       IN  fs \in {others} \cup {Put(others, 1, entry) : entry \in DiskEntries}
    /\ \/ Indexed(<<>>, <<>>, <<>>)
       \/ \E record \in RecordsOf(1) :
             Indexed(Put(<<>>, 1, record),
                     <<create_embedding(record.content_preview)>>,
                     <<DocData(1, record.content_preview, record.modified_time, 0)>>)

\* needs_reindexing(path), as incremental_index calls it at line 267
NeedsReindexing(path) ==
    /\ pc = "idle"
    /\ ret' = [Returned("needs_reindexing", FALSE) EXCEPT
                  !.args = <<path, needs_reindexing(path, file_records, fs)>>]
    /\ UNCHANGED <<fs, clock, file_records, index, documents, records_file,
                   index_file, documents_file, pc, run, worker, completed,
                   retired, ckpt, streak, crashes, calls>>
    /\ UNCHANGED <<engine, scanner>>

NextChange == \E path \in Paths : NeedsReindexing(path)

SpecChange == InitChange /\ [][NextChange]_vars

(***************************************************************************)
(* The indexer constructed over an index directory that an earlier run     *)
(* left, written with this embedding model or with one of another          *)
(* dimension.                                                              *)
(***************************************************************************)
\* the lists without a repeated path
DistinctLists == {list \in FileLists :
                    \A i, j \in 1..Len(list) : list[i] = list[j] => i = j}

InitDimension ==
    /\ fs = [path \in Paths |-> [mtime |-> 0, content |-> ((path - 1) % MaxContent) + 1,
                                 readable |-> TRUE]]
    /\ clock = 0
    /\ file_records = <<>>
    /\ index = <<>>
    /\ documents = <<>>
    /\ \E list \in DistinctLists, sign \in {1, -1} :
          /\ records_file =
                [state |-> "ok",
                 data |-> {<<list[i], NewRecord(list[i], fs[list[i]].content, i - 1, fs)>> :
                              i \in 1..Len(list)}]
          /\ index_file =
                [state |-> "ok",
                 data |-> [i \in 1..Len(list) |->
                             sign * create_embedding(fs[list[i]].content)]]
          /\ documents_file =
                [state |-> "ok",
                 data |-> [i \in 1..Len(list) |->
                             DocData(list[i], fs[list[i]].content, 0, i - 1)]]
    /\ pc = "down"
    /\ run = NoRun
    /\ worker = [w \in Workers |-> Free]
    /\ completed = <<>>
    /\ ret = Returned("init", FALSE)
    /\ retired = {}
    /\ ckpt = NoCheckpoint
    /\ streak = 0
    /\ crashes = 0
    /\ calls = 0
    /\ search_history = <<>>
    /\ file_access_patterns = <<>>
    /\ scanner = NoScan

NextDimension ==
    \/ Restart
    \/ Environment
    \/ \E list \in FileLists : IncrementalIndex(list, MaxSaveFrequency, 1)
    \/ Running
    \/ \E query \in Queries, top_k \in 1..MaxTopK : Search(query, top_k)

SpecDimension == InitDimension /\ [][NextDimension]_vars

(***************************************************************************)
(* The ranker on its own: one search over an index of all the files, for   *)
(* every age of the documents (dated or not), and every count of opens.    *)
(***************************************************************************)
RankerNows == {0, 1, 3, 7, 8, 30, 31}
RankerDates == {NoDate, 0, 3}
\* update_file_access adds 1 to a count that starts at 0
AccessCounts == {1, 2, 3, 5, 6}
AccessPatterns ==
    UNION {[opened -> AccessCounts] : opened \in SUBSET Paths}

InitRanker ==
    /\ clock \in RankerNows
    /\ file_access_patterns \in AccessPatterns
    /\ \E modified \in [Paths -> RankerDates] :
          LET disk == [path \in Paths |->
                         [mtime |-> IF modified[path] = NoDate THEN 0 ELSE modified[path],
                          content |-> ((path - 1) % MaxContent) + 1,
                          readable |-> TRUE]]
          IN  /\ fs = disk
              /\ Indexed([path \in Paths |->
                             NewRecord(path, disk[path].content, path - 1, disk)],
                         [i \in 1..NumPaths |-> create_embedding(disk[i].content)],
                         [i \in 1..NumPaths |->
                             DocData(i, disk[i].content, modified[i], i - 1)])

NextRanker ==
    \E query \in QueryStrings : AgenticSearch(query, MaxTopK)

SpecRanker == InitRanker /\ [][NextRanker]_vars

(***************************************************************************)
(* The query planner on its own: expand_query and analyze_intent applied   *)
(* to a query.                                                             *)
(***************************************************************************)
\* the queries given to the planner
PlannerQueries ==
    QueryStrings \cup
    {<<"new", "report">>, <<"last", "month">>, <<"last", "week">>,
     <<"this", "month">>, <<"this", "week">>, <<"latest">>, <<"today">>,
     <<"yesterday", "report">>, <<"updated">>, <<"modified">>, <<"changed">>,
     <<"data">>, <<"metadata">>, <<"meeting", "notes">>, <<"customer">>,
     <<"profit">>, <<"urgent", "plan">>, <<"financial", "data", "error">>,
     <<"week", "this">>}

\* QueryExpander.expand_query(query, max_expansions)
ExpandQuery(query, max_expansions) ==
    /\ pc = "idle"
    /\ ret' = [Returned("expand_query", FALSE) EXCEPT
                  !.args = <<query, max_expansions>>,
                  !.hits = expand_query(query, max_expansions)]
    /\ UNCHANGED <<fs, clock, file_records, index, documents, records_file,
                   index_file, documents_file, pc, run, worker, completed,
                   retired, ckpt, streak, crashes, calls>>
    /\ UNCHANGED <<engine, scanner>>

\* IntentAnalyzer.analyze_intent(query)
AnalyzeIntent(query) ==
    /\ pc = "idle"
    /\ ret' = [Returned("analyze_intent", FALSE) EXCEPT
                  !.args = <<query, analyze_intent(query)>>]
    /\ UNCHANGED <<fs, clock, file_records, index, documents, records_file,
                   index_file, documents_file, pc, run, worker, completed,
                   retired, ckpt, streak, crashes, calls>>
    /\ UNCHANGED <<engine, scanner>>

NextPlanner ==
    \/ \E query \in PlannerQueries, max_expansions \in 1..MaxExpansions :
            ExpandQuery(query, max_expansions)
    \/ \E query \in PlannerQueries : AnalyzeIntent(query)

SpecPlanner == Init /\ [][NextPlanner]_vars

NextScan ==
    \/ ScanSystem
    \/ ResetStop
    \/ \E d \in Dirs : ScanDirectory(d)
    \/ \E d \in Dirs : CollectFiles(d)
    \/ FinishScan
    \/ StopScan

\* the scanner, scanning while the front end may ask it to stop
SpecScan == Init /\ [][NextScan]_vars

(***************************************************************************)
(* incremental_index over files some of which cannot be read or are gone:  *)
(* the files change only between two calls, so that the files a run fails  *)
(* on are known from the file system it ran on.                            *)
(***************************************************************************)
InitLocal ==
    /\ fs \in [Paths -> {[mtime |-> 0, content |-> 1, readable |-> readable] :
                            readable \in BOOLEAN}]
    /\ clock = 0
    /\ file_records = <<>>
    /\ index = <<>>
    /\ documents = <<>>
    /\ records_file = Absent({})
    /\ index_file = Absent(<<>>)
    /\ documents_file = Absent(<<>>)
    /\ pc = "idle"
    /\ run = NoRun
    /\ worker = [w \in Workers |-> Free]
    /\ completed = <<>>
    /\ ret = Returned("init", FALSE)
    /\ retired = {}
    /\ ckpt = NoCheckpoint
    /\ streak = 0
    /\ crashes = 0
    /\ calls = 0
    /\ search_history = <<>>
    /\ file_access_patterns = <<>>
    /\ scanner = NoScan

BetweenCalls ==
    /\ pc = "idle"
    /\ Environment

NextLocal ==
    \/ BetweenCalls
    \/ Indexing

\* the pool threads and the main thread of a run are scheduled: a step of
\* the run that stays possible is taken
SpecLocal == InitLocal /\ [][NextLocal]_vars /\ WF_vars(Running)

\* the queries and the hints of a session of the front end
SessionQueries == {<<"report">>, <<"csv">>}
SessionHints == {<<>>, <<"report">>}

NextSession ==
    \/ \E list \in FileLists : IncrementalIndex(list, MaxSaveFrequency, 1)
    \/ Running
    \/ \E path \in Paths : UpdateFileAccess(path)
    \/ \E query \in SessionQueries : SessionSearch(query, MaxTopK)
    \/ \E context_hint \in SessionHints : SuggestFiles(context_hint)

\* a session of the front end: searches, suggestions and opened files over
\* an index being built
SpecSession == Init /\ [][NextSession]_vars

NextHistory ==
    \/ \E list \in FileLists : IncrementalIndex(list, MaxSaveFrequency, 1)
    \/ Running
    \/ \E query \in QueryStrings : SessionSearch(query, MaxTopK)

\* a session of searches of the search engine over an index being built
SpecHistory == Init /\ [][NextHistory]_vars

NextSaveError ==
    \/ Environment
    \/ \E list \in FileLists, save_frequency \in 1..MaxSaveFrequency :
            IncrementalIndex(list, save_frequency, 1)
    \/ Running
    \/ CleanupDeletedFiles
    \/ SaveDataFails

\* the indexer, indexing with a pool of one thread, on a disk whose writes
\* can fail
SpecSaveError == Init /\ [][NextSaveError]_vars

(***************************************************************************)
(* State functions used by the properties.                                 *)
(***************************************************************************)
\* the hits of the search that returned last
LastHits == Range(ret.hits)

\* the slots some record points to
RecordSlots(records) == {records[path].embedding_index : path \in DOMAIN records}

\* the slots a search with a large enough top_k builds a hit from
LiveSlots(vectors, docs) == {h.slot : h \in Range(search(1, Len(vectors), vectors, docs))}

\* what the caller of search sees of a hit
Shown(h) == [file_path |-> h.file_path, similarity_score |-> h.similarity_score]

\* the hits of a result list, as the caller sees them, for the paths in keep
RECURSIVE ShownFor(_, _)
ShownFor(hits, keep) ==
    IF hits = <<>> THEN <<>>
    ELSE LET rest == ShownFor(Tail(hits), keep)
         IN  IF Head(hits).file_path \in keep
             THEN <<Shown(Head(hits))>> \o rest ELSE rest

\* an incremental_index call is in progress
InRun == pc \notin {"idle", "down"} /\ run.caller /= "cleanup"

(***************************************************************************)
(* C1. Whenever a search has returned, every hit it built from vector slot *)
(* i reports a file that has a record, and that record's embedding_index   *)
(* is i: the score shown for a file is the score of the file's own vector. *)
(***************************************************************************)
C1_HitReportsOwnerOfSlot ==
    ret.op = "search" =>
        \A h \in LastHits :
            /\ h.file_path \in DOMAIN file_records
            /\ file_records[h.file_path].embedding_index = h.slot

(***************************************************************************)
(* C2. After a file indexed by an earlier call was modified and indexed    *)
(* again, its prior slot is retired: the path has exactly one live vector, *)
(* the one of its record, and no search builds a hit from the prior slot.  *)
(***************************************************************************)
C2_SearchIgnoresPriorSlot ==
    /\ ret.op = "search" => \A h \in LastHits : h.slot \notin retired
    /\ pc = "idle" => LiveSlots(index, documents) \cap retired = {}

(***************************************************************************)
(* C3. A second incremental_index call on the same list, with no file      *)
(* changed since the first call began, commits nothing: while it runs the  *)
(* vectors and the record table stay as they are, and it returns           *)
(* processed = 0.                                                          *)
(***************************************************************************)
C3_IdempotentReindex ==
    [][/\ (streak = 2 /\ InRun) => (index' = index /\ file_records' = file_records)
       /\ (streak' = 2 /\ pc' = "idle" /\ ret'.op = "incremental_index")
              => ret'.processed = 0]_vars

C3_Witness ==
    /\ streak = 2
    /\ pc = "idle"
    /\ ret.op = "incremental_index"
    /\ ret.processed = 0
    /\ ret.skipped = ret.total_files
    /\ DOMAIN file_records /= {}

(***************************************************************************)
(* C4. When exactly one record's file is gone from disk,                   *)
(* cleanup_deleted_files counts 1 removal, the record table shrinks by     *)
(* exactly that record, the removed record's slot is no longer live, no    *)
(* search returns the removed path, and the records and the hits of the    *)
(* files still on disk are what they were before the call.                 *)
(***************************************************************************)
C4_DeleteThenCleanup ==
    [][LET gone == DOMAIN file_records \ DOMAIN fs
           kept == DOMAIN file_records \cap DOMAIN fs
       IN  (pc = "idle" /\ run'.caller = "cleanup" /\ Cardinality(gone) = 1) =>
             /\ run'.deleted_count = 1
             /\ DOMAIN file_records' = kept
             /\ \A path \in kept : file_records'[path] = file_records[path]
             /\ \A path \in gone :
                   file_records[path].embedding_index \notin LiveSlots(index', documents')
             /\ \A query \in Queries, top_k \in 1..MaxTopK :
                   \A h \in Range(search(query, top_k, index', documents')) :
                       h.file_path \notin gone
             /\ \A query \in Queries :
                   ShownFor(search(query, Len(index), index', documents'), kept)
                     = ShownFor(search(query, Len(index), index, documents), kept)
      ]_vars

(***************************************************************************)
(* C5. In every state, every record of the record table has a slot that    *)
(* is not retired and lies in 0 .. N - 1, N the number of vectors.         *)
(***************************************************************************)
C5_RecordSlotValid ==
    \A path \in DOMAIN file_records :
        /\ file_records[path].embedding_index \notin retired
        /\ 0 <= file_records[path].embedding_index
        /\ file_records[path].embedding_index < Len(index)

(***************************************************************************)
(* C6. After every operation the live slots are exactly the slots the      *)
(* records point to, and no two records point to the same slot.            *)
(***************************************************************************)
C6_LiveSlotsAreRecordSlots ==
    pc = "idle" =>
        /\ LiveSlots(index, documents) = RecordSlots(file_records)
        /\ \A p1, p2 \in DOMAIN file_records :
              file_records[p1].embedding_index = file_records[p2].embedding_index
                  => p1 = p2

(***************************************************************************)
(* C7. A new indexer constructed over the index directory right after an   *)
(* operation that ended with save_data has the records, the vectors and    *)
(* the documents the old one had, and answers every search alike.          *)
(***************************************************************************)
C7_CheckpointRestore ==
    [][(pc = "idle" /\ ret.saved /\ ret'.op = "restart") =>
          /\ file_records' = file_records
          /\ index' = index
          /\ documents' = documents
          /\ \A query \in Queries, top_k \in 1..MaxTopK :
                search(query, top_k, index', documents')
                  = search(query, top_k, index, documents)
      ]_vars

C7_Witness ==
    /\ ret.op = "restart"
    /\ ret.saved
    /\ Cardinality(DOMAIN file_records) >= 2
    /\ Len(index) > Cardinality(DOMAIN file_records)
    /\ documents /= <<>>

(***************************************************************************)
(* C8. At no point of an incremental_index call do more than               *)
(* save_frequency records exist in memory that are not in the record file. *)
(***************************************************************************)
Unsaved ==
    {path \in DOMAIN file_records : <<path, file_records[path]>> \notin records_file.data}

C8_AtMostKUnsaved ==
    InRun => Cardinality(Unsaved) <= run.save_frequency

(***************************************************************************)
(* C9. Whenever the process is killed, the files left in the index         *)
(* directory form a consistent index: each file is complete or absent,     *)
(* every persisted record points to a persisted vector and has its         *)
(* persisted document.                                                     *)
(***************************************************************************)
DiskConsistent ==
    /\ records_file.state /= "partial"
    /\ index_file.state /= "partial"
    /\ documents_file.state /= "partial"
    /\ \A m \in records_file.data :
          /\ m[2].embedding_index < Len(index_file.data)
          /\ \E doc \in Range(documents_file.data) :
                /\ doc.file_path = m[1]
                /\ doc.embedding_index = m[2].embedding_index

C9_CrashConsistency ==
    pc = "down" => DiskConsistent

(***************************************************************************)
(* C10. After a kill that follows a checkpoint of the run, the restarted   *)
(* indexer reports the checkpointed records; indexing the same list again  *)
(* processes exactly the entries that had no record at the restart, and    *)
(* then every file of the list has a record.                               *)
(***************************************************************************)
RECURSIVE CountMissing(_, _)
CountMissing(list, have) ==
    IF list = <<>> THEN 0
    ELSE (IF Head(list) \in have THEN 0 ELSE 1) + CountMissing(Tail(list), have)

C10_CrashRecovery ==
    /\ ckpt.stage = "restarted" =>
          /\ ckpt.paths \subseteq DOMAIN file_records
          /\ get_index_statistics(file_records, index).total_files
                = Cardinality(ckpt.loaded)
    /\ ckpt.stage = "recovered" =>
          /\ ret.processed = CountMissing(ckpt.files, ckpt.loaded)
          /\ Range(ckpt.files) \subseteq DOMAIN file_records

(***************************************************************************)
(* C11. A commit is atomic to a concurrent reader: whenever the main       *)
(* thread is about to read the shared state for a checkpoint (save_data    *)
(* dumps the records, then the vectors, then the documents), no task is    *)
(* between the append of its vector and the update of its document entry,  *)
(* so the reader sees no vector of the run without its record and no       *)
(* record of the run whose document entry is missing or still the old one. *)
(***************************************************************************)
\* the main thread is at a read of save_data
Reading == pc \in {"save_records", "save_index", "save_documents"}

\* the task of thread w has appended its vector and not yet its document
MidCommit(w) == worker[w].pc \in {"record", "scan", "document"}

\* path has a record and the document entry of that record
HasDocumentOfRecord(path) ==
    /\ path \in DOMAIN file_records
    /\ \E doc \in Range(documents) :
          /\ doc.file_path = path
          /\ doc.embedding_index = file_records[path].embedding_index

C11_CommitAtomicToReader ==
    (InRun /\ Reading) =>
        \A w \in Workers : MidCommit(w) => HasDocumentOfRecord(worker[w].path)

(***************************************************************************)
(* C12. Commits do not interleave: every record points to the slot that    *)
(* holds the vector of the content the record was made from, and no two    *)
(* records point to the same slot.                                         *)
(***************************************************************************)
C12_CommitsSerialized ==
    /\ \A path \in DOMAIN file_records :
          LET record == file_records[path]
          IN  record.embedding_index < Len(index) =>
                 index[record.embedding_index + 1]
                    = create_embedding(record.content_preview)
    /\ \A p1, p2 \in DOMAIN file_records :
          p1 /= p2 =>
             file_records[p1].embedding_index /= file_records[p2].embedding_index

(***************************************************************************)
(* C13. A task that reports failure leaves the vectors, the records and    *)
(* the documents as they were before it: in particular, when a run         *)
(* returns, the vectors appended during the run are exactly as many as the *)
(* files it processed (a failed task has appended none).                   *)
(***************************************************************************)
C13_FailureLeavesStoresUntouched ==
    [][(pc = "write_documents" /\ run.caller = "final" /\ pc' = "idle") =>
          Len(index) = run.base + run.processed
      ]_vars

(***************************************************************************)
(* State functions of the properties of AgenticSearchEngine.search.        *)
(***************************************************************************)
\* the step is a call of AgenticSearchEngine.search returning
Searched == search_history' /= search_history /\ ret'.op = "agentic_search"

\* the arguments of the agentic search that returned last
LastQuery == ret.args[1]
LastTopK == ret.args[2]

\* the raw hits of all the expansion queries of query, 2 * top_k per query
FanOutHits(query, top_k, vectors, docs) ==
    UNION {Range(search(Text(e), 2 * top_k, vectors, docs)) :
              e \in Range(expand_query(query, 5))}

\* the best similarity score of path among a set of raw hits
BestScore(hits, path) ==
    CHOOSE score \in {h.similarity_score : h \in {g \in hits : g.file_path = path}} :
        \A h \in hits : h.file_path = path => h.similarity_score <= score

\* the raw hit a SearchResult was made from, as far as the ranker reads it
AsRaw(r) ==
    [file_path |-> r.file_path, similarity_score |-> r.similarity_score,
     modified |-> r.last_modified]

(***************************************************************************)
(* C14. Query expansion monotonicity: every path that the indexer returns  *)
(* for the query alone is a candidate of the fan-out over all expansion    *)
(* queries, with a semantic score at least the one the query alone gives   *)
(* it, and no returned result has a semantic score below it.               *)
(***************************************************************************)
C14_ExpansionMonotone ==
    ret.op = "agentic_search" =>
        LET alone == Range(search(Text(LastQuery), 2 * LastTopK, index, documents))
            candidates == FanOut(<<>>, expand_query(LastQuery, 5), LastTopK,
                                 index, documents)
        IN  \A r \in alone :
               /\ \E c \in Range(candidates) :
                     /\ c.file_path = r.file_path
                     /\ c.similarity_score >= r.similarity_score
               /\ \A h \in Range(ret.hits) :
                     h.file_path = r.file_path
                         => h.similarity_score >= r.similarity_score

\* a search whose expansions gave a path a better score than the query alone
C14_Witness ==
    /\ ret.op = "agentic_search"
    /\ Len(expand_query(LastQuery, 5)) > 1
    /\ \E h \in Range(ret.hits) :
          \E r \in Range(search(Text(LastQuery), 2 * LastTopK, index, documents)) :
              /\ r.file_path = h.file_path
              /\ h.similarity_score > r.similarity_score

(***************************************************************************)
(* C15. Top-k semantics: a search with k returns at most k results, no     *)
(* path twice; each result carries the best score of its path over the     *)
(* 2k raw hits of every expansion query; and the results are the k best    *)
(* of all the paths among those raw hits (all of them if they are fewer).  *)
(***************************************************************************)
C15_TopK ==
    [][Searched =>
          LET query == ret'.args[1]
              top_k == ret'.args[2]
              hits == ret'.hits
              fan == FanOutHits(query, top_k, index, documents)
              paths == {h.file_path : h \in fan}
              Confidence(path) ==
                  calculate_relevance_score(
                      [file_path |-> path, similarity_score |-> BestScore(fan, path),
                       modified |-> (CHOOSE h \in fan : h.file_path = path).modified],
                      query, analyze_intent(query), file_access_patterns, clock)
          IN  /\ Len(hits) <= top_k
              /\ \A i, j \in 1..Len(hits) :
                    i /= j => hits[i].file_path /= hits[j].file_path
              /\ \A i \in 1..Len(hits) :
                    /\ hits[i].file_path \in paths
                    /\ hits[i].similarity_score = BestScore(fan, hits[i].file_path)
              /\ Len(hits) = Min(top_k, Cardinality(paths))
              /\ \A path \in paths \ {h.file_path : h \in Range(hits)} :
                    \A i \in 1..Len(hits) : hits[i].confidence >= Confidence(path)
      ]_vars

\* a search that found more paths than k and cut the list
C15_Witness ==
    /\ ret.op = "agentic_search"
    /\ Len(ret.hits) = LastTopK
    /\ Cardinality({h.file_path :
                       h \in FanOutHits(LastQuery, LastTopK, index, documents)})
          > LastTopK
    /\ Len(expand_query(LastQuery, 5)) > 1

(***************************************************************************)
(* C16. The returned list is sorted descending by final score; of two      *)
(* results with equal final score the one with the larger semantic score   *)
(* comes first, and with equal semantic score too the one with the smaller *)
(* path (paths are numbered in lexicographic order).                       *)
(***************************************************************************)
C16_SortedWithTieBreak ==
    ret.op = "agentic_search" =>
        \A i, j \in 1..Len(ret.hits) :
            i < j =>
               LET a == ret.hits[i]
                   b == ret.hits[j]
               IN  \/ a.confidence > b.confidence
                   \/ /\ a.confidence = b.confidence
                      /\ \/ a.similarity_score > b.similarity_score
                         \/ /\ a.similarity_score = b.similarity_score
                            /\ a.file_path < b.file_path

(***************************************************************************)
(* C17. Ranker determinism: the result list of a search depends on the     *)
(* query, k, the indexed files, the access counters and the clock only,    *)
(* not on the order in which the files were indexed: when every file was   *)
(* indexed once, the search returns what it returns over the same files    *)
(* indexed in the order of their paths.                                    *)
(***************************************************************************)
\* every vector is the vector of the document at its position, no path twice
IndexedOnce(vectors, docs) ==
    /\ Len(vectors) = Len(docs)
    /\ \A i \in 1..Len(docs) :
          /\ docs[i].embedding_index = i - 1
          /\ vectors[i] = create_embedding(docs[i].content)
          /\ \A j \in 1..Len(docs) : docs[j].file_path = docs[i].file_path => j = i

\* the documents as indexing the same files in the order of their paths
\* leaves them
InPathOrder(docs) ==
    [i \in 1..Len(docs) |->
        LET doc == CHOOSE d \in Range(docs) :
                      Cardinality({e \in Range(docs) : e.file_path < d.file_path}) = i - 1
        IN  [doc EXCEPT !.embedding_index = i - 1]]

VectorsOf(docs) == [i \in 1..Len(docs) |-> create_embedding(docs[i].content)]

C17_RankerDeterminism ==
    [][(Searched /\ IndexedOnce(index, documents)) =>
          ret'.hits = agentic_search(ret'.args[1], ret'.args[2],
                                     VectorsOf(InPathOrder(documents)),
                                     InPathOrder(documents),
                                     file_access_patterns, clock)
      ]_vars

(***************************************************************************)
(* C18. The final score of every result is the weighted sum                *)
(* 0.40 semantic + 0.20 recency + 0.15 file type + 0.15 filename           *)
(* + 0.10 access of its five scores, clamped to [0, 1]; the weights sum    *)
(* to 1 and the final score lies in [0, 1].                                *)
(***************************************************************************)
C18_WeightedSumClamped ==
    [][Searched =>
          \A r \in Range(ret'.hits) :
             LET scores == Scores(AsRaw(r), ret'.args[1], analyze_intent(ret'.args[1]),
                                  file_access_patterns, clock)
                 sum == 40 * scores.semantic_similarity + 20 * scores.recency
                        + 15 * scores.file_type_match + 15 * scores.filename_match
                        + 10 * scores.access_frequency
             IN  /\ r.confidence = IF sum < 0 THEN 0
                                   ELSE IF sum > 100 * Unit THEN 100 * Unit ELSE sum
                 /\ 0 <= r.confidence
                 /\ r.confidence <= 100 * Unit
                 /\ ranking_weights.semantic_similarity + ranking_weights.recency
                    + ranking_weights.file_type_match + ranking_weights.filename_match
                    + ranking_weights.access_frequency = 100
      ]_vars

\* a result whose weighted sum was negative and was clamped to 0
C18_Witness ==
    /\ ret.op = "agentic_search"
    /\ \E r \in Range(ret.hits) :
          /\ r.confidence = 0
          /\ r.similarity_score < 0

(***************************************************************************)
(* C19. Each of the five scores of a result lies in [0, 1], and the        *)
(* semantic score is the similarity score s rescaled as (s + 1) / 2.       *)
(***************************************************************************)
C19_ComponentsInUnitInterval ==
    [][Searched =>
          \A r \in Range(ret'.hits) :
             LET scores == Scores(AsRaw(r), ret'.args[1], analyze_intent(ret'.args[1]),
                                  file_access_patterns, clock)
             IN  /\ \A factor \in DOMAIN scores :
                       0 <= scores[factor] /\ scores[factor] <= Unit
                 /\ scores.semantic_similarity
                       = ((r.similarity_score + 100) * Unit) \div 200
      ]_vars

(***************************************************************************)
(* C20. Empty index: while the record table is empty (a fresh index, or    *)
(* one emptied by cleanup), every search of the indexer and of the search  *)
(* engine, with any query and any k, returns the empty list.               *)
(***************************************************************************)
C20_EmptyIndex ==
    (pc = "idle" /\ DOMAIN file_records = {}) =>
        /\ \A query \in Queries, top_k \in 1..(2 * MaxTopK) :
              search(query, top_k, index, documents) = <<>>
        /\ \A query \in QueryStrings, top_k \in 1..MaxTopK :
              agentic_search(query, top_k, index, documents,
                             file_access_patterns, clock) = <<>>
        /\ ret.op = "agentic_search" => ret.hits = <<>>

\* a search on an index emptied by cleanup, its vectors still in the store
C20_Witness ==
    /\ pc = "idle"
    /\ DOMAIN file_records = {}
    /\ Len(index) > 0
    /\ ret.op = "agentic_search"
    /\ ret.hits = <<>>


(***************************************************************************)
(* C21. All live hits: a search of the indexer with k larger than the      *)
(* number of records returns exactly one hit per record and nothing else,  *)
(* each hit scored against the vector its record designates, also after a  *)
(* file was modified and indexed again or removed by cleanup.              *)
(***************************************************************************)
LiveHit(query, path, records, vectors) ==
    LET slot == records[path].embedding_index
    IN  [file_path |-> path,
         similarity_score |->
             IF slot < Len(vectors)
             THEN InnerProduct(create_embedding(query), vectors[slot + 1])
             ELSE -101]

C21_AllLiveHits ==
    [][ \A query \in Queries, top_k \in 1..MaxTopK :
          ( /\ pc = "idle"
            /\ top_k > Cardinality(DOMAIN file_records)
            /\ ret' = [Returned("search", FALSE) EXCEPT
                          !.hits = search(query, top_k, index, documents)] )
          => LET hits == ret'.hits
             IN  /\ \A path \in DOMAIN file_records :
                       Cardinality({i \in 1..Len(hits) :
                                       hits[i].file_path = path}) = 1
                 /\ \A i \in 1..Len(hits) :
                       /\ hits[i].file_path \in DOMAIN file_records
                       /\ hits[i].similarity_score
                             = LiveHit(query, hits[i].file_path,
                                       file_records, index).similarity_score
      ]_vars

(***************************************************************************)
(* C22. Restore refuses a corrupt index: an indexer constructed over an    *)
(* index directory in which one persisted file is unreadable while others  *)
(* load, or in which a record designates a slot that is not below the      *)
(* number of persisted vectors, does not come up; an indexer that is in    *)
(* service after its construction was restored from readable files whose   *)
(* records all designate persisted vectors.                                *)
(***************************************************************************)
C22_RestoreRefusesCorruptIndex ==
    (pc = "idle" /\ ret.op = "restart") =>
        /\ records_file.state /= "partial"
        /\ index_file.state /= "partial"
        /\ documents_file.state /= "partial"
        /\ \A m \in records_file.data :
              m[2].embedding_index < Len(index_file.data)

(***************************************************************************)
(* C23. An I/O error during a checkpoint is fatal: when incremental_index  *)
(* or cleanup_deleted_files has returned a normal result after calling     *)
(* save_data, the state has been persisted: the three files on disk are    *)
(* complete and hold the record table, the vectors and the documents of    *)
(* the indexer.                                                            *)
(***************************************************************************)
C23_CheckpointErrorIsFatal ==
    ( /\ pc = "idle"
      /\ ret.op \in {"incremental_index", "cleanup_deleted_files"}
      /\ ret.saved )
    => /\ records_file = [state |-> "ok", data |-> json_dump(file_records)]
       /\ index_file = [state |-> "ok", data |-> index]
       /\ documents_file = [state |-> "ok", data |-> documents]

(***************************************************************************)
(* C24. The search history is a bounded ring buffer: it never holds more   *)
(* than its capacity, a search appends its entry while the history is not  *)
(* full, and once it is full each new entry evicts the oldest one.         *)
(***************************************************************************)
C24_HistoryRingBuffer ==
    [][ search_history' /= search_history =>
          /\ Len(search_history') <= HistoryCapacity
          /\ Len(search_history') >= 1
          /\ LET entry == search_history'[Len(search_history')]
             IN  search_history' =
                     IF Len(search_history) < HistoryCapacity
                     THEN Append(search_history, entry)
                     ELSE Append(Tail(search_history), entry)
      ]_vars

(***************************************************************************)
(* C25. needs_reindexing returns False exactly when the path has a record, *)
(* the size on disk equals the recorded size, the current modification     *)
(* time is not later than the recorded one and the current content hash    *)
(* equals the recorded hash; a path without a record is new, and a         *)
(* recorded path whose size differs, whose modification time is later or   *)
(* whose hash differs needs re-indexing.                                   *)
(***************************************************************************)
C25_ChangeDetection ==
    ret.op = "needs_reindexing" =>
        LET path == ret.args[1]
            result == ret.args[2]
            recorded == path \in DOMAIN file_records
            present == path \in DOMAIN fs
        IN  /\ result = FALSE <=>
                 /\ recorded
                 /\ present
                 /\ StSize(fs[path].content) = file_records[path].size_bytes
                 /\ fs[path].mtime <= file_records[path].modified_time
                 /\ calculate_file_hash(path, fs) = file_records[path].content_hash
            /\ ~recorded => result
            /\ (recorded /\ present) =>
                 /\ StSize(fs[path].content) /= file_records[path].size_bytes => result
                 /\ fs[path].mtime > file_records[path].modified_time => result
                 /\ calculate_file_hash(path, fs) /= file_records[path].content_hash
                        => result

\* an unchanged file whose time stamp is earlier than the recorded one
C25_Witness ==
    /\ ret.op = "needs_reindexing"
    /\ ret.args[2] = FALSE
    /\ ret.args[1] \in DOMAIN file_records
    /\ fs[ret.args[1]].readable
    /\ fs[ret.args[1]].mtime < file_records[ret.args[1]].modified_time

(***************************************************************************)
(* C26. Fail-closed: when the inspection of a path that has a record meets *)
(* an I/O error (the status call fails, or the file cannot be read while   *)
(* its hash is computed), needs_reindexing returns True, whatever hash was *)
(* recorded.                                                               *)
(***************************************************************************)
C26_FailClosed ==
    ( /\ ret.op = "needs_reindexing"
      /\ ret.args[1] \in DOMAIN file_records
      /\ \/ ret.args[1] \notin DOMAIN fs
         \/ ~fs[ret.args[1]].readable )
    => ret.args[2] = TRUE

(***************************************************************************)
(* C27. The dimension is fixed: every vector an indexer in service holds   *)
(* has the dimension embedding_dim = 384; an indexer constructed over a    *)
(* persisted index of another dimension does not come into service.        *)
(***************************************************************************)
C27_FixedDimension ==
    pc /= "down" =>
        /\ IndexDimension(index) = embedding_dim
        /\ \A i \in 1..Len(index) : Dimension(index[i]) = embedding_dim

(***************************************************************************)
(* C28. Recency signal: 0.5 when the query does not need recent files;     *)
(* otherwise, for every result of the indexer, the step function of the    *)
(* age in whole days: 0 -> 1.0, 1 -> 0.8, up to 7 -> 0.6, up to 30 -> 0.4, *)
(* older -> 0.2.                                                           *)
(***************************************************************************)
C28_RecencySignal ==
    [][Searched =>
          \A r \in Range(ret'.hits) :
             LET intent_analysis == analyze_intent(ret'.args[1])
                 recency == calculate_recency_score(AsRaw(r), intent_analysis, clock)
                 age == clock - r.last_modified
             IN  IF ~intent_analysis.needs_recent_files
                 THEN recency = Unit \div 2
                 ELSE /\ recency \in {Unit, (8 * Unit) \div 10, (6 * Unit) \div 10,
                                      (4 * Unit) \div 10, (2 * Unit) \div 10}
                      /\ r.last_modified /= NoDate =>
                            recency = IF age = 0 THEN Unit
                                      ELSE IF age = 1 THEN (8 * Unit) \div 10
                                      ELSE IF age <= 7 THEN (6 * Unit) \div 10
                                      ELSE IF age <= 30 THEN (4 * Unit) \div 10
                                      ELSE (2 * Unit) \div 10
      ]_vars

(***************************************************************************)
(* C29. File-name signal: with the query and the file name split into word *)
(* tokens, if at least one query token equals a file-name token the score  *)
(* is the number of such tokens over the number of query tokens; otherwise *)
(* it is 0.5 for each query token that is a substring of the file name,    *)
(* clipped to 1.0.                                                         *)
(***************************************************************************)
C29_FilenameSignal ==
    [][Searched =>
          \A r \in Range(ret'.hits) :
             LET query_tokens == Range(ret'.args[1])
                 filename_tokens == FilenameWords(r.file_path)
                 overlap == query_tokens \cap filename_tokens
                 substring_hits ==
                     Cardinality({t \in query_tokens :
                                     \E f \in filename_tokens : InWord(t, f)})
                 filename_match == calculate_filename_score(AsRaw(r), ret'.args[1])
             IN  IF overlap /= {}
                 THEN filename_match
                         = (Cardinality(overlap) * Unit) \div Cardinality(query_tokens)
                 ELSE filename_match = Min(Unit, (substring_hits * Unit) \div 2)
      ]_vars

(***************************************************************************)
(* C30. Access signal: 0.5 when the count of opens of the path is unknown, *)
(* 0.3 for a count of 0, 0.6 up to 2, 0.8 up to 5, 1.0 above; a path that  *)
(* was never opened scores the same whether or not other paths have been   *)
(* opened.                                                                 *)
(***************************************************************************)
C30_AccessSignal ==
    [][Searched =>
          \A r \in Range(ret'.hits) :
             LET access_frequency ==
                     calculate_access_score(AsRaw(r), file_access_patterns)
                 never_opened == [path \in {} |-> 0]
             IN  IF r.file_path \notin DOMAIN file_access_patterns
                 THEN /\ access_frequency = Unit \div 2
                      /\ access_frequency
                            = calculate_access_score(AsRaw(r), never_opened)
                 ELSE LET count == file_access_patterns[r.file_path]
                      IN  access_frequency =
                             IF count = 0 THEN (3 * Unit) \div 10
                             ELSE IF count <= 2 THEN (6 * Unit) \div 10
                             ELSE IF count <= 5 THEN (8 * Unit) \div 10
                             ELSE Unit
      ]_vars

(***************************************************************************)
(* C31. analyze_intent sets needs_recent_files exactly when the query      *)
(* contains one of the temporal markers recent, latest, today, yesterday,  *)
(* this week, this month, last week, last month, updated, modified,        *)
(* changed.                                                                *)
(***************************************************************************)
C31_NeedsRecentFiles ==
    ret.op = "analyze_intent" =>
        LET query == ret.args[1]
        IN  ret.args[2].needs_recent_files <=>
               \/ HasWord(query, {"recent", "latest", "today", "yesterday",
                                  "updated", "modified", "changed"})
               \/ HasPhrase(query, "this", "week")
               \/ HasPhrase(query, "this", "month")
               \/ HasPhrase(query, "last", "week")
               \/ HasPhrase(query, "last", "month")

(***************************************************************************)
(* C32. For every query Q and every limit M >= 1, expand_query returns a   *)
(* list of at least 1 and at most M queries whose first element is Q.      *)
(***************************************************************************)
C32_ExpansionBounds ==
    ret.op = "expand_query" =>
        /\ Len(ret.hits) >= 1
        /\ Len(ret.hits) <= ret.args[2]
        /\ ret.hits[1] = ret.args[1]

\* an expansion cut by the limit: the loops had collected more than M queries
C32_Witness ==
    /\ ret.op = "expand_query"
    /\ Len(ret.hits) = ret.args[2]
    /\ ret.args[2] > 1
    /\ Len(expand_query_unsliced(ret.args[1], ret.args[2])) > ret.args[2]

(***************************************************************************)
(* C33. Domain expansion: expand_query appends Q + " " + t only for the    *)
(* domains whose trigger term (the domain's name) appears in Q, for up to  *)
(* 2 terms of each such domain; a query with no trigger term gets no       *)
(* domain expansion.                                                       *)
(***************************************************************************)
C33_DomainExpansion ==
    ret.op = "expand_query" =>
        LET query == ret.args[1]
        IN  \A k \in 1..Len(domain_expansions) :
               LET d == domain_expansions[k]
                   appended == {i \in 1..Len(d.terms) :
                                   Append(query, d.terms[i]) \in Range(ret.hits)}
               IN  /\ Cardinality(appended) <= 2
                   /\ appended /= {} => InText(d.domain, query)

(***************************************************************************)
(* C34. Cancellation: once stop_scan was called while a scan is in         *)
(* progress, the request stays in force until that scan has ended (the run *)
(* it targets never loses or resets it), and every worker leaves its loop  *)
(* at its next poll: no task takes another file.                           *)
(***************************************************************************)
C34_Cancellation ==
    [][ /\ scanner'.requested => scanner'.stop_scanning
        /\ scanner.requested =>
              \A d \in Dirs :
                 scanner'.task[d].files_found = scanner.task[d].files_found
      ]_vars

\* an incremental_index call returns in this step
IndexReturns ==
    /\ pc' = "idle"
    /\ pc /= "idle" \/ calls' /= calls
    /\ ret'.op = "incremental_index"

\* the task of this file fails: extract_content gives nothing for it
Failing(path) == path \notin DOMAIN fs \/ ~fs[path].readable

\* the file has its record and its document, with the content it has now
Committed(path, records, docs) ==
    /\ path \in DOMAIN records
    /\ records[path].content_preview = fs[path].content
    /\ \E j \in 1..Len(docs) : /\ docs[j].file_path = path
                               /\ docs[j].content = fs[path].content

IndexStarts ==
    /\ calls' /= calls
    /\ ret'.op = "incremental_index" \/ (ret'.op = "running" /\ run'.caller = "none")

\* the entries of the list that needs_reindexing classifies unchanged
Unchanged(list, records, disk) ==
    {i \in 1..Len(list) : ~needs_reindexing(list[i], records, disk)}

(***************************************************************************)
(* C36. The statistics of every incremental_index call account for each    *)
(* entry of its list once: the entries are counted when the call starts,   *)
(* those classified unchanged as skipped and the others as tasks, and at   *)
(* the return total_files = processed + skipped + errors, with skipped the *)
(* number of entries classified unchanged and processed the number of      *)
(* records the run stored (created or rewritten).                          *)
(***************************************************************************)
C36_StatisticsAccount ==
    [][ /\ IndexStarts =>
             LET list == run'.files
                 skipped == Cardinality(Unchanged(list, file_records, fs))
             IN  IF pc' = "idle"
                 THEN /\ skipped = Len(list)
                      /\ ret'.total_files = Len(list)
                      /\ ret'.skipped = skipped
                      /\ ret'.processed = 0
                      /\ ret'.errors = 0
                 ELSE /\ skipped < Len(list)
                      /\ run'.n = Len(list) - skipped
        /\ (IndexReturns /\ pc /= "idle") =>
              /\ ret'.total_files = Len(run.files)
              /\ ret'.skipped = Len(run.files) - run.n
              /\ ret'.processed = run.written
              /\ ret'.total_files = ret'.processed + ret'.skipped + ret'.errors
      ]_vars

\* a run has returned that skipped an entry, stored a record and failed on a file
C36_Witness ==
    /\ pc = "idle"
    /\ ret.op = "incremental_index"
    /\ ret.skipped = 1
    /\ ret.processed + ret.errors = 1
    /\ ret.total_files = 2

\* the document list and the record table name the same paths, each path once
\* in the list, with the slot of its record
DocumentsMatchRecords(records, docs) ==
    /\ \A path \in DOMAIN records :
          Cardinality({j \in 1..Len(docs) : docs[j].file_path = path}) = 1
    /\ \A j \in 1..Len(docs) :
          /\ docs[j].file_path \in DOMAIN records
          /\ docs[j].embedding_index = records[docs[j].file_path].embedding_index

(***************************************************************************)
(* C37. After every completed incremental_index or cleanup_deleted_files   *)
(* call, with the pool at any size and also for a list that names a path   *)
(* twice, the document list holds exactly one entry for each path of the   *)
(* record table, none for another path, and the entry carries the          *)
(* embedding_index of the record.                                          *)
(***************************************************************************)
C37_OneDocumentPerRecord ==
    (pc = "idle" /\ ret.op \in {"incremental_index", "cleanup_deleted_files"})
        => DocumentsMatchRecords(file_records, documents)

\* a search or a suggestion is made in this step
SearchStep ==
    \/ search_history' /= search_history
    \/ ret' /= ret /\ ret'.op \in {"agentic_search", "suggest_files"}

\* the searches suggest_files makes for this hint
SearchesOf(context_hint) ==
    (IF DOMAIN file_access_patterns /= {} THEN <<<<"recent", "documents">>>> ELSE <<>>)
        \o (IF context_hint /= <<>> THEN <<context_hint>> ELSE <<>>)

\* the history grows by one entry for each of these searches, in their order
Appends(queries) ==
    /\ Len(search_history') = Len(search_history) + Len(queries)
    /\ SubSeq(search_history', 1, Len(search_history)) = search_history
    /\ \A i \in 1..Len(queries) :
          search_history'[Len(search_history) + i].query = queries[i]

(***************************************************************************)
(* C38. Searching is read-only on the index: every search of the engine,   *)
(* those made inside suggest_files included, leaves the record table, the  *)
(* vector store, the document list and the access counters as they are and *)
(* appends exactly one entry to the search history; and a step that        *)
(* changes an access counter is an update_file_access: it makes no search, *)
(* and it adds exactly 1 to the counter of one path and leaves every other *)
(* counter as it is.                                                       *)
(***************************************************************************)
C38_SearchIsReadOnly ==
    [][ /\ SearchStep =>
              /\ UNCHANGED <<file_records, index, documents, file_access_patterns>>
              /\ ret'.op = "agentic_search" => Appends(<<ret'.args[1]>>)
              /\ ret'.op = "suggest_files" => Appends(SearchesOf(ret'.args[1]))
        /\ file_access_patterns' /= file_access_patterns =>
              /\ UNCHANGED <<file_records, index, documents, search_history>>
              /\ \E path \in Paths :
                    LET count == IF path \in DOMAIN file_access_patterns
                                 THEN file_access_patterns[path] ELSE 0
                    IN  /\ DOMAIN file_access_patterns' =
                               DOMAIN file_access_patterns \cup {path}
                        /\ file_access_patterns'[path] = count + 1
                        /\ \A other \in DOMAIN file_access_patterns \ {path} :
                              file_access_patterns'[other] = file_access_patterns[other]
      ]_vars

\* suggest_files has made its two searches over an index that holds a file,
\* after two files were opened
C38_Witness ==
    /\ ret.op = "suggest_files"
    /\ ret.hits /= <<>>
    /\ Len(search_history) >= 2
    /\ search_history[Len(search_history) - 1].query = <<"recent", "documents">>
    /\ search_history[Len(search_history)].query = ret.args[1]
    /\ Cardinality(DOMAIN file_access_patterns) = 2
    /\ index /= <<>>

=============================================================================
